---- MODULE Spec2Model ----
(***************************************************************************)
(* Exploit prover of the Cyber-Threat-Range IDE (src-tauri/src/analysis):  *)
(* sink detector (python_parser.rs), backward slicer (slicer.rs),          *)
(* constraint generator (constraint_gen.rs), SMT driver (solver.rs) and    *)
(* orchestrator (prover.rs).                                               *)
(*                                                                         *)
(* Rust strings are sequences of one-character strings, so that contains,  *)
(* split, trim and ends_with are computed and not assumed.  A parsed       *)
(* source is the tree the tree-sitter Python grammar produces for it; the  *)
(* text of every node is the text of its children, so tree and text agree. *)
(***************************************************************************)
EXTENDS Integers, Sequences, FiniteSets, TLC

\* ------------------------------------------------------------------------
\* Bounds of the model
\* ------------------------------------------------------------------------
\* longest analysed program, in statements (one statement per line)
MaxStmts == 3
\* is_tainted queries asked of one analysed source
MaxQueries == 2

\* ------------------------------------------------------------------------
\* Rust string operations used by the analysis
\* ------------------------------------------------------------------------
\* str::contains(&str)
contains(s, pat) ==
  \E text \in {s}, sub \in {pat} :
    \E i \in 0..(Len(text) - Len(sub)) : \A k \in 1..Len(sub) : text[i + k] = sub[k]

\* str::starts_with
starts_with(s, pat) ==
  /\ Len(pat) <= Len(s)
  /\ SubSeq(s, 1, Len(pat)) = pat

\* str::ends_with
ends_with(s, pat) ==
  /\ Len(pat) <= Len(s)
  /\ SubSeq(s, Len(s) - Len(pat) + 1, Len(s)) = pat

\* positions of the character c in s
positions(s, c) == {i \in 1..Len(s) : s[i] = c}

SetMin(S) == CHOOSE x \in S : \A y \in S : x <= y
SetMax(S) == CHOOSE x \in S : \A y \in S : x >= y

\* function_name.split('.').last(): the text after the last '.'
split_last(s, c) ==
  IF positions(s, c) = {} THEN s
  ELSE SubSeq(s, SetMax(positions(s, c)) + 1, Len(s))

WhiteSpace == {" ", "\t", "\n", "\r"}

\* str::trim_start_matches(c)
RECURSIVE trim_start_matches(_, _)
trim_start_matches(s, C) ==
  IF s # <<>> /\ Head(s) \in C THEN trim_start_matches(Tail(s), C) ELSE s

RECURSIVE trim_end_matches(_, _)
trim_end_matches(s, C) ==
  IF s # <<>> /\ s[Len(s)] \in C
  THEN trim_end_matches(SubSeq(s, 1, Len(s) - 1), C) ELSE s

\* str::trim_matches(|c| ...)
trim_matches(s, C) == trim_end_matches(trim_start_matches(s, C), C)

\* str::trim
trim(s) == trim_matches(s, WhiteSpace)

\* str::split_once(c): <<>> for None, else <<before, after>>
split_once(s, c) ==
  IF positions(s, c) = {} THEN <<>>
  ELSE LET i == SetMin(positions(s, c))
       IN <<SubSeq(s, 1, i - 1), SubSeq(s, i + 1, Len(s))>>

\* str::split(c): the pieces between the occurrences of c
RECURSIVE split(_, _)
split(s, c) ==
  IF positions(s, c) = {} THEN <<s>>
  ELSE LET i == SetMin(positions(s, c))
       IN <<SubSeq(s, 1, i - 1)>> \o split(SubSeq(s, i + 1, Len(s)), c)

\* concatenation of a sequence of strings
RECURSIVE Cat(_)
Cat(ss) == IF ss = <<>> THEN <<>> ELSE Head(ss) \o Cat(Tail(ss))

\* slice::join(sep)
RECURSIVE join(_, _)
join(ss, sep) ==
  IF ss = <<>> THEN <<>>
  ELSE IF Len(ss) = 1 THEN ss[1]
  ELSE ss[1] \o sep \o join(Tail(ss), sep)

\* str::lines(): split on "\n"; a final empty piece is not a line
lines(s) ==
  LET ps == split(s, "\n")
  IN IF ps[Len(ps)] = <<>> THEN SubSeq(ps, 1, Len(ps) - 1) ELSE ps

\* char::is_numeric / char::is_alphanumeric on the ASCII range
Letters ==
  {"a", "b", "c", "d", "e", "f", "g", "h", "i", "j", "k", "l", "m",
   "n", "o", "p", "q", "r", "s", "t", "u", "v", "w", "x", "y", "z",
   "A", "B", "C", "D", "E", "F", "G", "H", "I", "J", "K", "L", "M",
   "N", "O", "P", "Q", "R", "S", "T", "U", "V", "W", "X", "Y", "Z"}
is_numeric(c) == c \in {"0", "1", "2", "3", "4", "5", "6", "7", "8", "9"}
is_alphanumeric(c) == is_numeric(c) \/ c \in Letters

\* elements of a sequence
Range(s) == {s[i] : i \in 1..Len(s)}

\* all sequences over S of length at most n
SeqsUpTo(S, n) == UNION {[1..k -> S] : k \in 0..n}

\* ------------------------------------------------------------------------
\* Syntax trees (tree_sitter::Node as produced by tree-sitter-python)
\* ------------------------------------------------------------------------
\* A node: kind() name, the field name it has in its parent, is_named(),
\* utf8_text() and children in source order (anonymous tokens included).
Node(k, t, ks) == [kind |-> k, field |-> "", named |-> TRUE, text |-> t, kids |-> ks]

\* an anonymous token such as "(" or "=": its kind is its text
Tok(t) == [kind |-> "token", field |-> "", named |-> FALSE, text |-> t, kids |-> <<>>]

\* the same node, held by its parent under a field name
WithField(n, f) == [n EXCEPT !.field = f]

\* Node::child_by_field_name: <<>> for None, else <<child>>
child_by_field_name(n, f) ==
  LET hits == {i \in 1..Len(n.kids) : n.kids[i].field = f}
  IN IF hits = {} THEN <<>> ELSE <<n.kids[SetMin(hits)]>>

\* Node::named_children
named_children(n) == SelectSeq(n.kids, LAMBDA k : k.named)

\* Node::utf8_text
node_text(n) == n.text

Ident(name) == Node("identifier", name, <<>>)

Attribute(obj, name) ==
  Node("attribute", obj.text \o <<".">> \o name,
       <<WithField(obj, "object"), Tok(<<".">>), WithField(Ident(name), "attribute")>>)

Integer(t) == Node("integer", t, <<>>)

\* "contents": a string without interpolation
StringLit(content) ==
  Node("string", <<"\"">> \o content \o <<"\"">>, <<Tok(<<"\"">>), Tok(<<"\"">>)>>)

\* 'contents'
StringLitSq(content) ==
  Node("string", <<"'">> \o content \o <<"'">>, <<Tok(<<"'">>), Tok(<<"'">>)>>)

Interpolation(e) ==
  Node("interpolation", <<"{">> \o e.text \o <<"}">>,
       <<Tok(<<"{">>), WithField(e, "expression"), Tok(<<"}">>)>>)

\* f"prefix{e}suffix"
FString(prefix, e, suffix) ==
  Node("string", <<"f","\"">> \o prefix \o <<"{">> \o e.text \o <<"}">> \o suffix \o <<"\"">>,
       <<Tok(<<"f","\"">>), Interpolation(e), Tok(<<"\"">>)>>)

\* l op r
BinaryOperator(l, op, r) ==
  Node("binary_operator", l.text \o <<" ">> \o op \o <<" ">> \o r.text,
       <<WithField(l, "left"), Tok(op), WithField(r, "right")>>)

\* the children of a bracketed, comma separated list
RECURSIVE CommaKids(_)
CommaKids(es) ==
  IF es = <<>> THEN <<>>
  ELSE IF Len(es) = 1 THEN <<es[1]>>
  ELSE <<es[1], Tok(<<",">>)>> \o CommaKids(Tail(es))

CommaText(es) == join([i \in 1..Len(es) |-> es[i].text], <<","," ">>)

\* (e,)
Tuple1(e) ==
  Node("tuple", <<"(">> \o e.text \o <<",",")">>, <<Tok(<<"(">>), e, Tok(<<",">>), Tok(<<")">>)>>)

\* {"key": e}
Dict1(key, e) ==
  Node("dictionary", <<"{">> \o StringLit(key).text \o <<":"," ">> \o e.text \o <<"}">>,
       <<Tok(<<"{">>),
         Node("pair", StringLit(key).text \o <<":"," ">> \o e.text,
              <<WithField(StringLit(key), "key"), Tok(<<":">>), WithField(e, "value")>>),
         Tok(<<"}">>)>>)

ArgumentList(es) ==
  Node("argument_list", <<"(">> \o CommaText(es) \o <<")">>,
       <<Tok(<<"(">>)>> \o CommaKids(es) \o <<Tok(<<")">>)>>)

Call(fn, es) ==
  Node("call", fn.text \o ArgumentList(es).text,
       <<WithField(fn, "function"), WithField(ArgumentList(es), "arguments")>>)

KeywordArgument(name, e) ==
  Node("keyword_argument", name \o <<"=">> \o e.text,
       <<WithField(Ident(name), "name"), Tok(<<"=">>), WithField(e, "value")>>)

Comment(t) == Node("comment", t, <<>>)

\* a simple statement holding an expression, an assignment or a call
ExpressionStatement(e) == Node("expression_statement", e.text, <<e>>)

Assignment(l, r) ==
  ExpressionStatement(
    Node("assignment", l.text \o <<" ","="," ">> \o r.text,
         <<WithField(l, "left"), Tok(<<"=">>), WithField(r, "right")>>))

\* l += r
AugmentedAssignment(l, r) ==
  ExpressionStatement(
    Node("augmented_assignment", l.text \o <<" ","+","="," ">> \o r.text,
         <<WithField(l, "left"), WithField(Tok(<<"+","=">>), "operator"), WithField(r, "right")>>))

\* x, y  (tuple unpacking target)
PatternList(es) ==
  Node("pattern_list", CommaText(es), CommaKids(es))

PassStatement == Node("pass_statement", <<"p","a","s","s">>, <<>>)

\* the six parameter forms of the grammar
TypeNode(t) == Node("type", t, <<Ident(t)>>)

TypedParameter(name, t) ==
  Node("typed_parameter", name \o <<":"," ">> \o t,
       <<Ident(name), Tok(<<":">>), WithField(TypeNode(t), "type")>>)

DefaultParameter(name, v) ==
  Node("default_parameter", name \o <<"=">> \o v.text,
       <<WithField(Ident(name), "name"), Tok(<<"=">>), WithField(v, "value")>>)

TypedDefaultParameter(name, t, v) ==
  Node("typed_default_parameter", name \o <<":"," ">> \o t \o <<" ","="," ">> \o v.text,
       <<WithField(Ident(name), "name"), Tok(<<":">>), WithField(TypeNode(t), "type"),
         Tok(<<"=">>), WithField(v, "value")>>)

ListSplatPattern(name) ==
  Node("list_splat_pattern", <<"*">> \o name, <<Tok(<<"*">>), Ident(name)>>)

DictionarySplatPattern(name) ==
  Node("dictionary_splat_pattern", <<"*","*">> \o name, <<Tok(<<"*","*">>), Ident(name)>>)

Parameters(ps) ==
  Node("parameters", <<"(">> \o CommaText(ps) \o <<")">>,
       <<Tok(<<"(">>)>> \o CommaKids(ps) \o <<Tok(<<")">>)>>)

\* def name(ps): body      (body on the line of the def)
FunctionDefinition(name, ps, body) ==
  Node("function_definition",
       <<"d","e","f"," ">> \o name \o Parameters(ps).text \o <<":"," ">> \o body.text,
       <<Tok(<<"d","e","f">>), WithField(Ident(name), "name"),
         WithField(Parameters(ps), "parameters"), Tok(<<":">>),
         WithField(Node("block", body.text, <<body>>), "body")>>)

\* lambda ps: body
Lambda(ps, body) ==
  Node("lambda", <<"l","a","m","b","d","a"," ">> \o CommaText(ps) \o <<":"," ">> \o body.text,
       <<Tok(<<"l","a","m","b","d","a">>),
         WithField(Node("lambda_parameters", CommaText(ps), CommaKids(ps)), "parameters"),
         Tok(<<":">>), WithField(body, "body")>>)

\* A parsed source: one statement per line, line i at row i - 1.
\* The text handed to the analysis is the lines joined by "\n".
SourceText(prog) == join([i \in 1..Len(prog) |-> prog[i].text], <<"\n">>)

\* a  or  a.b : a dotted_name of one identifier per component
DottedName(name) ==
  Node("dotted_name", name, <<Ident(name)>>)

\* name as alias
AliasedImport(name, alias) ==
  Node("aliased_import", name \o <<" ","a","s"," ">> \o alias,
       <<WithField(DottedName(name), "name"), Tok(<<"a","s">>), WithField(Ident(alias), "alias")>>)

\* from module import n1, n2 ; each n a dotted_name or an aliased_import
FromImport(module, ns) ==
  Node("import_from_statement",
       <<"f","r","o","m"," ">> \o module \o <<" ","i","m","p","o","r","t"," ">> \o CommaText(ns),
       <<Tok(<<"f","r","o","m">>), WithField(DottedName(module), "module_name"), Tok(<<"i","m","p","o","r","t">>)>>
       \o CommaKids([i \in 1..Len(ns) |-> WithField(ns[i], "name")]))

\* import n1, n2
PlainImport(ns) ==
  Node("import_statement", <<"i","m","p","o","r","t"," ">> \o CommaText(ns),
       <<Tok(<<"i","m","p","o","r","t">>)>> \o CommaKids([i \in 1..Len(ns) |-> WithField(ns[i], "name")]))

\* class name: body
ClassDefinition(name, body) ==
  Node("class_definition", <<"c","l","a","s","s"," ">> \o name \o <<":"," ">> \o body.text,
       <<Tok(<<"c","l","a","s","s">>), WithField(Ident(name), "name"), Tok(<<":">>),
         WithField(Node("block", body.text, <<body>>), "body")>>)
\* ------------------------------------------------------------------------
\* Backward slicer (slicer.rs)
\* ------------------------------------------------------------------------
FLASK_ENTRY_POINTS ==
  << <<"r","e","q","u","e","s","t",".","a","r","g","s">>, <<"r","e","q","u","e","s","t",".","f","o","r","m">>, <<"r","e","q","u","e","s","t",".","d","a","t","a">>, <<"r","e","q","u","e","s","t",".","j","s","o","n">>,
     <<"r","e","q","u","e","s","t",".","f","i","l","e","s">>, <<"r","e","q","u","e","s","t",".","v","a","l","u","e","s">>, <<"r","e","q","u","e","s","t",".","c","o","o","k","i","e","s">>, <<"r","e","q","u","e","s","t",".","h","e","a","d","e","r","s">> >>

CLI_ENTRY_POINTS == << <<"s","y","s",".","a","r","g","v">>, <<"a","r","g","s",".">>, <<"i","n","p","u","t","(">> >>

\* FLASK_ENTRY_POINTS.iter().chain(CLI_ENTRY_POINTS.iter())
ENTRY_POINTS == FLASK_ENTRY_POINTS \o CLI_ENTRY_POINTS

\* enum ValueSource
Literal == [tag |-> "Literal", src |-> <<>>]
UserInput(expr) == [tag |-> "UserInput", src |-> expr]
Derived == [tag |-> "Derived", src |-> <<>>]
Parameter == [tag |-> "Parameter", src |-> <<>>]

\* struct VariableDefinition
VariableDefinition(n, l, vs, deps) ==
  [name |-> n, line |-> l, value_source |-> vs, dependencies |-> deps]

\* extract_identifiers: identifiers and whole attribute texts, in pre-order;
\* the children of an attribute are visited as well
RECURSIVE extract_identifiers(_)
extract_identifiers(n) ==
  (IF n.kind \in {"identifier", "attribute"} THEN <<node_text(n)>> ELSE <<>>)
  \o Cat([i \in 1..Len(n.kids) |-> extract_identifiers(n.kids[i])])

\* analyze_value: <<value_source, dependencies>>
analyze_value(n, value_text) ==
  LET hits == {i \in 1..Len(ENTRY_POINTS) : contains(value_text, ENTRY_POINTS[i])}
      deps == extract_identifiers(n)
  IN IF hits # {} THEN <<UserInput(ENTRY_POINTS[SetMin(hits)]), <<>> >>
     ELSE IF n.kind \in {"integer", "float", "true", "false", "none"}
          THEN <<Literal, <<>> >>
     ELSE IF deps = <<>> THEN <<Literal, <<>> >>
     ELSE <<Derived, deps>>

\* process_assignment without the push of the target of an augmented
\* assignment
process_assignment_value_deps(n, row) ==
  LET left == child_by_field_name(n, "left")
      right == child_by_field_name(n, "right")
  IN IF left = <<>> \/ right = <<>> THEN <<>>
     ELSE LET value == analyze_value(right[1], node_text(right[1]))
              targets == extract_identifiers(left[1])
          IN [t \in 1..Len(targets) |->
                VariableDefinition(targets[t], row + 1, value[1], value[2])]

\* process_assignment: the definitions it pushes, one per target, in order
process_assignment(n, row) ==
  LET left == child_by_field_name(n, "left")
      right == child_by_field_name(n, "right")
  IN IF left = <<>> \/ right = <<>> THEN <<>>
     ELSE LET value == analyze_value(right[1], node_text(right[1]))
              targets == extract_identifiers(left[1])
          IN [t \in 1..Len(targets) |->
                VariableDefinition(
                  targets[t], row + 1, value[1],
                  IF n.kind = "augmented_assignment"
                  THEN Append(value[2], targets[t]) ELSE value[2])]

\* the name process_function_params binds for one child of the parameter
\* list: <<>> when the child binds nothing
param_name(param) ==
  IF param.kind \in {"identifier", "typed_parameter"} THEN <<node_text(param)>>
  ELSE IF param.kind \in {"default_parameter", "typed_default_parameter"}
       THEN LET name_node == child_by_field_name(param, "name")
            IN IF name_node = <<>> THEN <<>> ELSE <<node_text(name_node[1])>>
  ELSE IF param.kind \in {"list_splat_pattern", "dictionary_splat_pattern"}
       THEN IF param.kids = <<>> THEN <<>> ELSE <<node_text(param.kids[1])>>
  ELSE <<>>

\* process_function_params: the definitions it pushes, in parameter order
process_function_params(n, row) ==
  LET params == child_by_field_name(n, "parameters")
      one(p) == IF param_name(p) = <<>> THEN <<>>
                ELSE <<VariableDefinition(param_name(p)[1], row + 1, Parameter, <<>>)>>
  IN IF params = <<>> THEN <<>>
     ELSE Cat([i \in 1..Len(params[1].kids) |-> one(params[1].kids[i])])

\* collect_definitions: the definitions pushed for the node itself, then
\* those of its children in order
RECURSIVE collect_definitions(_, _)
collect_definitions(n, row) ==
  (IF n.kind \in {"assignment", "augmented_assignment"} THEN process_assignment(n, row)
   ELSE IF n.kind \in {"function_definition", "lambda"} THEN process_function_params(n, row)
   ELSE <<>>)
  \o Cat([i \in 1..Len(n.kids) |-> collect_definitions(n.kids[i], row)])

\* the walk from the module node: statement i sits on row i - 1
collect_module(prog) ==
  Cat([i \in 1..Len(prog) |-> collect_definitions(prog[i], i - 1)])

\* self.definitions after the pushes:
\* entry(name).or_insert_with(Vec::new).push(def) keeps, per name, the
\* definitions in the order they were pushed
definitions_of(pushed) ==
  LET names == {pushed[i].name : i \in 1..Len(pushed)}
      mine(nm) == SelectSeq(pushed, LAMBDA d : d.name = nm)
  IN [nm \in names |-> mine(nm)]

\* HashMap::new()
NoDefinitions == definitions_of(<<>>)

\* identify_entry_points: the names the two loops insert into self.tainted
identify_entry_points(defs, source_text) ==
  LET has(name, tags) ==
        \E i \in 1..Len(defs[name]) : defs[name][i].value_source.tag \in tags
      first == {name \in DOMAIN defs : has(name, {"UserInput", "Parameter"})}
      inline == {name \in DOMAIN defs :
                   \E i \in 1..Len(defs[name]), e \in 1..Len(ENTRY_POINTS) :
                     /\ contains(source_text, ENTRY_POINTS[e])
                     /\ defs[name][i].value_source.tag = "UserInput"
                     /\ contains(defs[name][i].value_source.src, ENTRY_POINTS[e])}
  IN first \cup inline

\* BackwardSlicer::analyze on a new slicer: the fields definitions, tainted
analyze_slicer(prog) ==
  LET defs == definitions_of(collect_module(prog))
  IN [definitions |-> defs,
      tainted |-> { <<"r","e","q","u","e","s","t">> } \cup identify_entry_points(defs, SourceText(prog))]

\* is_tainted_recursive: the answer and the visited set it leaves behind
RECURSIVE is_tainted_recursive(_, _, _)
RECURSIVE check_defs(_, _, _, _)
RECURSIVE check_deps(_, _, _)
is_tainted_recursive(sl, var_name, visited) ==
  IF var_name \in visited THEN [res |-> FALSE, visited |-> visited]
  ELSE LET v1 == visited \cup {var_name}
       IN IF var_name \in sl.tainted THEN [res |-> TRUE, visited |-> v1]
          ELSE IF var_name \in DOMAIN sl.definitions
               THEN check_defs(sl, sl.definitions[var_name], 1, v1)
          ELSE [res |-> FALSE, visited |-> v1]
\* for def in defs
check_defs(sl, defs, i, visited) ==
  IF i > Len(defs) THEN [res |-> FALSE, visited |-> visited]
  ELSE IF defs[i].value_source.tag \in {"UserInput", "Parameter"}
       THEN [res |-> TRUE, visited |-> visited]
  ELSE IF defs[i].value_source.tag = "Derived"
       THEN LET r == check_deps(sl, defs[i].dependencies, visited)
            IN IF r.res THEN r ELSE check_defs(sl, defs, i + 1, r.visited)
  ELSE check_defs(sl, defs, i + 1, visited)
\* the loop over the dependencies left after its first turn
check_deps_first_only(sl, deps, visited) ==
  IF deps = <<>> THEN [res |-> FALSE, visited |-> visited]
  ELSE is_tainted_recursive(sl, Head(deps), visited)

\* for dep in &def.dependencies
check_deps(sl, deps, visited) ==
  IF deps = <<>> THEN [res |-> FALSE, visited |-> visited]
  ELSE LET r == is_tainted_recursive(sl, Head(deps), visited)
       IN IF r.res THEN r ELSE check_deps(sl, Tail(deps), r.visited)

\* is_tainted
is_tainted(sl, var_name) == is_tainted_recursive(sl, var_name, {}).res


\* ------------------------------------------------------------------------
\* PythonParser: sink detection (python_parser.rs)
\* ------------------------------------------------------------------------
SQL_SINKS == <<<<"e","x","e","c","u","t","e">>, <<"e","x","e","c","u","t","e","m","a","n","y">>, <<"r","a","w">>, <<"e","x","e","c","u","t","e","_","s","q","l">>>>

COMMAND_SINKS ==
  <<<<"s","y","s","t","e","m">>, <<"p","o","p","e","n">>, <<"c","a","l","l">>, <<"r","u","n">>, <<"c","h","e","c","k","_","o","u","t","p","u","t">>, <<"c","h","e","c","k","_","c","a","l","l">>,
    <<"P","o","p","e","n">>, <<"g","e","t","o","u","t","p","u","t">>, <<"g","e","t","s","t","a","t","u","s","o","u","t","p","u","t">>>>

CODE_SINKS == <<<<"e","v","a","l">>, <<"e","x","e","c">>, <<"c","o","m","p","i","l","e">>>>

PATH_SINKS ==
  <<<<"o","p","e","n">>, <<"r","e","a","d","_","f","i","l","e">>, <<"w","r","i","t","e","_","f","i","l","e">>, <<"s","e","n","d","_","f","i","l","e">>, <<"r","e","m","o","v","e">>, <<"u","n","l","i","n","k">>>>

DESERIALIZE_SINKS == <<<<"l","o","a","d","s">>, <<"l","o","a","d">>, <<"y","a","m","l",".","l","o","a","d">>>>

SSRF_SINKS == <<<<"r","e","q","u","e","s","t","s",".","g","e","t">>, <<"r","e","q","u","e","s","t","s",".","p","o","s","t">>, <<"u","r","l","o","p","e","n">>, <<"u","r","l","r","e","t","r","i","e","v","e">>>>

XXE_SINKS == <<<<"p","a","r","s","e">>, <<"f","r","o","m","s","t","r","i","n","g">>>>

REGEX_SINKS == <<<<"c","o","m","p","i","l","e">>, <<"m","a","t","c","h">>, <<"s","e","a","r","c","h">>, <<"f","i","n","d","a","l","l">>, <<"s","u","b">>>>

\* enum SinkType
SqlInjection == "SqlInjection"
CommandInjection == "CommandInjection"
CodeInjection == "CodeInjection"
PathTraversal == "PathTraversal"
Deserialization == "Deserialization"
Ssrf == "Ssrf"
Xxe == "Xxe"

\* classify_sink: <<>> for None, else <<sink type>>
classify_sink(function_name) ==
  LET method_name == split_last(function_name, ".")
      has(pat) == contains(function_name, pat)
      ends(list) == \E i \in 1..Len(list) : ends_with(function_name, list[i])
  IN IF /\ method_name \in Range(SQL_SINKS)
        /\ \/ has(<<"c","u","r","s","o","r">>) \/ has(<<"e","x","e","c","u","t","e">>) \/ has(<<"d","b">>) \/ has(<<"c","o","n","n","e","c","t","i","o","n">>)
     THEN <<SqlInjection>>
     ELSE IF /\ method_name \in Range(COMMAND_SINKS)
             /\ \/ has(<<"o","s",".">>) \/ has(<<"s","u","b","p","r","o","c","e","s","s">>)
                \/ method_name \in {<<"s","y","s","t","e","m">>, <<"p","o","p","e","n">>, <<"g","e","t","o","u","t","p","u","t">>, <<"g","e","t","s","t","a","t","u","s","o","u","t","p","u","t">>}
     THEN <<CommandInjection>>
     ELSE IF method_name \in Range(CODE_SINKS) THEN <<CodeInjection>>
     ELSE IF method_name \in Range(PATH_SINKS) THEN <<PathTraversal>>
     ELSE IF /\ method_name \in Range(DESERIALIZE_SINKS)
             /\ \/ has(<<"p","i","c","k","l","e">>) \/ has(<<"m","a","r","s","h","a","l">>) \/ has(<<"y","a","m","l">>)
     THEN <<Deserialization>>
     ELSE IF ends(SSRF_SINKS) THEN <<Ssrf>>
     ELSE IF ends(XXE_SINKS) /\ (has(<<"l","x","m","l">>) \/ has(<<"e","t","r","e","e">>)) THEN <<Xxe>>
     ELSE IF ends(REGEX_SINKS) /\ has(<<"r","e",".">>) THEN <<CodeInjection>>
     ELSE IF method_name \in {<<"e","v","a","l">>, <<"e","x","e","c">>} THEN <<CodeInjection>>
     ELSE IF method_name = <<"s","y","s","t","e","m">> THEN <<CommandInjection>>
     ELSE <<>>

\* extract_variables and extract_fstring_vars: the names pushed, in order
RECURSIVE extract_variables(_), extract_fstring_vars(_)

\* an extract_variables with an arm for attribute nodes, which pushes the
\* dotted text as one name
extract_variables_dotted(n) ==
  IF n.kind \in {"identifier", "attribute"} THEN <<node_text(n)>>
  ELSE IF n.kind \in {"string", "concatenated_string", "formatted_string"}
       THEN extract_fstring_vars(n)
  ELSE Cat([i \in 1..Len(n.kids) |-> extract_variables(n.kids[i])])

extract_variables(n) ==
  IF n.kind = "identifier" THEN <<node_text(n)>>
  ELSE IF n.kind \in {"string", "concatenated_string", "formatted_string"}
       THEN extract_fstring_vars(n)
  ELSE Cat([i \in 1..Len(n.kids) |-> extract_variables(n.kids[i])])

extract_fstring_vars(n) ==
  LET of(child) ==
        IF child.kind \in {"interpolation", "format_expression"}
        THEN extract_variables(child)
        ELSE IF child.kind \in {"concatenated_string", "string"}
             THEN extract_fstring_vars(child)
        ELSE <<>>
  IN Cat([i \in 1..Len(n.kids) |-> of(n.kids[i])])

\* every argument taken for the query: what extract_sql_tainted_vars would
\* return if it did not stop at the first argument
extract_all_arguments(args_node) == extract_variables(args_node)

\* extract_sql_tainted_vars: the variables of the first named child only
extract_sql_tainted_vars(args_node) ==
  LET args == named_children(args_node)
  IN IF args = <<>> THEN <<>> ELSE extract_variables(args[1])

\* struct Sink (the column is not modelled)
Sink(t, l, snippet, tvars) ==
  [sink_type |-> t, line |-> l, code_snippet |-> snippet, tainted_vars |-> tvars]

\* check_call_node without the test for an empty tainted_vars
check_call_node_keep_empty(n, row) ==
  LET function_node == child_by_field_name(n, "function")
      args_node == child_by_field_name(n, "arguments")
  IN IF function_node = <<>> THEN <<>>
     ELSE LET sink_type == classify_sink(node_text(function_node[1]))
          IN IF sink_type = <<>> \/ args_node = <<>> THEN <<>>
             ELSE <<Sink(sink_type[1], row + 1, node_text(n),
                         IF sink_type[1] = SqlInjection
                         THEN extract_sql_tainted_vars(args_node[1])
                         ELSE extract_variables(args_node[1]))>>

\* check_call_node: <<>> for None, else <<sink>>
check_call_node(n, row) ==
  LET function_node == child_by_field_name(n, "function")
      args_node == child_by_field_name(n, "arguments")
  IN IF function_node = <<>> THEN <<>>
     ELSE LET sink_type == classify_sink(node_text(function_node[1]))
          IN IF sink_type = <<>> \/ args_node = <<>> THEN <<>>
             ELSE LET tainted_vars ==
                        IF sink_type[1] = SqlInjection
                        THEN extract_sql_tainted_vars(args_node[1])
                        ELSE extract_variables(args_node[1])
                  IN IF tainted_vars = <<>> THEN <<>>
                     ELSE <<Sink(sink_type[1], row + 1, node_text(n), tainted_vars)>>

\* walk_tree: the sinks pushed for the node, then for its children in order
RECURSIVE walk_tree(_, _)
walk_tree(n, row) ==
  (IF n.kind = "call" THEN check_call_node(n, row) ELSE <<>>)
  \o Cat([i \in 1..Len(n.kids) |-> walk_tree(n.kids[i], row)])

\* find_sinks: the walk from the module node, statement i on row i - 1
find_sinks(prog) == Cat([i \in 1..Len(prog) |-> walk_tree(prog[i], i - 1)])

\* ------------------------------------------------------------------------
\* Attack paths (slicer.rs, mod.rs)
\* ------------------------------------------------------------------------
\* SinkType::description
description(sink_type) ==
  CASE sink_type = SqlInjection -> <<"S","Q","L"," ","I","n","j","e","c","t","i","o","n"," ","-"," ","U","s","e","r"," ","i","n","p","u","t"," ","i","n"," ","d","a","t","a","b","a","s","e"," ","q","u","e","r","y">>
    [] sink_type = CommandInjection -> <<"C","o","m","m","a","n","d"," ","I","n","j","e","c","t","i","o","n"," ","-"," ","U","s","e","r"," ","i","n","p","u","t"," ","i","n"," ","s","h","e","l","l"," ","c","o","m","m","a","n","d">>
    [] sink_type = CodeInjection -> <<"C","o","d","e"," ","I","n","j","e","c","t","i","o","n"," ","-"," ","U","s","e","r"," ","i","n","p","u","t"," ","i","n"," ","e","v","a","l","/","e","x","e","c">>
    [] sink_type = PathTraversal -> <<"P","a","t","h"," ","T","r","a","v","e","r","s","a","l"," ","-"," ","U","s","e","r"," ","i","n","p","u","t"," ","i","n"," ","f","i","l","e"," ","p","a","t","h">>
    [] sink_type = Deserialization -> <<"I","n","s","e","c","u","r","e"," ","D","e","s","e","r","i","a","l","i","z","a","t","i","o","n"," ","-"," ","U","n","t","r","u","s","t","e","d"," ","d","a","t","a"," ","i","n"," ","p","i","c","k","l","e">>
    [] sink_type = Ssrf -> <<"S","e","r","v","e","r","-","S","i","d","e"," ","R","e","q","u","e","s","t"," ","F","o","r","g","e","r","y"," ","-"," ","U","s","e","r"," ","i","n","p","u","t"," ","i","n"," ","n","e","t","w","o","r","k"," ","r","e","q","u","e","s","t">>
    [] sink_type = Xxe -> <<"X","M","L"," ","E","x","t","e","r","n","a","l"," ","E","n","t","i","t","y"," ","-"," ","U","s","e","r"," ","i","n","p","u","t"," ","i","n"," ","X","M","L"," ","p","a","r","s","e","r">>

\* struct PathNode
PathNode(l, c, d) == [line |-> l, code |-> c, description |-> d]

\* source.lines().nth(n).unwrap_or("")
nth_line(source_text, n) ==
  LET ls == lines(source_text)
  IN IF n + 1 \in 1..Len(ls) THEN ls[n + 1] ELSE <<>>

\* the PathNode build_trace_recursive makes for one definition
trace_node(var_name, def, source_text) ==
  PathNode(
    def.line,
    IF def.line > 0 THEN trim(nth_line(source_text, def.line - 1))
    ELSE var_name \o <<" ","="," ",".",".",".">>,
    CASE def.value_source.tag = "UserInput" ->
           <<"E","N","T","R","Y",":"," ","U","s","e","r"," ","i","n","p","u","t"," ","f","r","o","m"," ">> \o def.value_source.src
      [] def.value_source.tag = "Parameter" ->
           <<"E","N","T","R","Y",":"," ","F","u","n","c","t","i","o","n"," ","p","a","r","a","m","e","t","e","r"," ","(","p","o","t","e","n","t","i","a","l","l","y"," ","u","s","e","r","-","c","o","n","t","r","o","l","l","e","d",")">>
      [] def.value_source.tag = "Derived" -> <<"F","L","O","W",":"," ","V","a","r","i","a","b","l","e"," ","d","e","r","i","v","a","t","i","o","n">>
      [] OTHER -> <<"F","L","O","W",":"," ","D","a","t","a"," ","t","r","a","n","s","f","o","r","m","a","t","i","o","n">>)

\* build_trace_recursive on the state st = [path, visited, expanded]: the
\* state it leaves behind; expanded lists the pairs inserted into visited, in
\* the order of their insertion
RECURSIVE build_trace_recursive(_, _, _, _)
RECURSIVE trace_defs(_, _, _, _, _)
RECURSIVE trace_deps(_, _, _, _)
build_trace_recursive(sl, var_name, source_text, st) ==
  IF var_name \notin DOMAIN sl.definitions THEN st
  ELSE trace_defs(sl, var_name, source_text, 1, st)

\* for def in defs
trace_defs(sl, var_name, source_text, i, st) ==
  LET defs == sl.definitions[var_name]
  IN IF i > Len(defs) THEN st
     ELSE IF <<var_name, defs[i].line>> \in st.visited
          THEN trace_defs(sl, var_name, source_text, i + 1, st)
     ELSE LET def == defs[i]
              pushed ==
                IF \E k \in 1..Len(st.path) : st.path[k].line = def.line
                THEN st.path
                ELSE Append(st.path, trace_node(var_name, def, source_text))
              deps_to_trace ==
                SelectSeq(def.dependencies,
                          LAMBDA dep : \/ dep \in sl.tainted
                                       \/ is_tainted_recursive(sl, dep, {}).res)
              after == trace_deps(sl, deps_to_trace, source_text,
                                  [path |-> pushed,
                                   visited |-> st.visited \cup {<<var_name, def.line>>},
                                   expanded |-> Append(st.expanded, <<var_name, def.line>>)])
          IN trace_defs(sl, var_name, source_text, i + 1, after)

\* for dep in deps_to_trace
trace_deps(sl, deps, source_text, st) ==
  IF deps = <<>> THEN st
  ELSE trace_deps(sl, Tail(deps), source_text,
                  build_trace_recursive(sl, Head(deps), source_text, st))

\* a trace that stops at the sink: self.path left as it was
build_trace_sink_only(sl, var_name, source_text, path) == path

\* build_trace: the path and the visited set when build_trace_recursive
\* has returned
build_trace_state(sl, var_name, source_text, path) ==
  build_trace_recursive(sl, var_name, source_text,
                        [path |-> path, visited |-> {}, expanded |-> <<>>])

\* build_trace: self.path afterwards
build_trace(sl, var_name, source_text, path) ==
  build_trace_state(sl, var_name, source_text, path).path

\* self.path left empty instead of holding the sink
trace_start_empty(sink) == <<>>

\* self.path.clear() and the push of the sink
trace_start(sink) ==
  <<PathNode(sink.line, sink.code_snippet, <<"S","I","N","K",":"," ">> \o description(sink.sink_type))>>

\* the last of sink.tainted_vars that is tainted, <<>> if none is
last_tainted_var(sl, sink) ==
  LET hits == {i \in 1..Len(sink.tainted_vars) :
                 is_tainted_recursive(sl, sink.tainted_vars[i], {}).res}
  IN IF hits = {} THEN <<>> ELSE <<sink.tainted_vars[SetMax(hits)]>>

\* the first of sink.tainted_vars that is tainted, <<>> if none is
first_tainted_var(sl, sink) ==
  LET hits == {i \in 1..Len(sink.tainted_vars) :
                 is_tainted_recursive(sl, sink.tainted_vars[i], {}).res}
  IN IF hits = {} THEN <<>> ELSE <<sink.tainted_vars[SetMin(hits)]>>

\* trace_to_entry_point: <<>> for None, else <<path>>
trace_to_entry_point(sl, sink, source_text) ==
  LET var == first_tainted_var(sl, sink)
  IN IF var = <<>> THEN <<>>
     ELSE <<build_trace(sl, var[1], source_text, trace_start(sink))>>


\* ------------------------------------------------------------------------
\* ConstraintGenerator (constraint_gen.rs)
\* ------------------------------------------------------------------------
\* is_valid_var_name
is_valid_var_name(name) ==
  /\ name # <<>>
  /\ ~is_numeric(name[1])
  /\ \A i \in 1..Len(name) : is_alphanumeric(name[i]) \/ name[i] = "_"

Quotes == {"\"", "'"}

\* parse_f_string
parse_f_string(expr) ==
  LET content == trim_matches(trim_start_matches(expr, {"f"}), Quotes)
      parts == split(content, "{")
      piece(part) ==
        LET sp == split_once(part, "}")
        IN IF sp = <<>> THEN <<>>
           ELSE <<" ">> \o trim(sp[1])
                \o (IF sp[2] # <<>> THEN <<" ","\"">> \o sp[2] \o <<"\"">> ELSE <<>>)
  IN IF Len(parts) <= 1 THEN <<"\"">> \o content \o <<"\"">>
     ELSE <<"(","s","t","r",".","+","+">>
          \o (IF parts[1] # <<>> THEN <<" ","\"">> \o parts[1] \o <<"\"">> ELSE <<>>)
          \o Cat([i \in 1..(Len(parts) - 1) |-> piece(parts[i + 1])])
          \o <<")">>

\* the first loop of generate_smt: the vector declared after nodes 1..i
RECURSIVE declared_after(_, _)
declared_after(nodes, i) ==
  IF i = 0 THEN <<>>
  ELSE LET before == declared_after(nodes, i - 1)
           sp == split_once(nodes[i].code, "=")
       IN IF sp = <<>> THEN before
          ELSE LET var_name == trim(sp[1])
               IN IF var_name \notin Range(before) /\ is_valid_var_name(var_name)
                  THEN Append(before, var_name)
                  ELSE before

\* the second loop of generate_smt: the line pushed for one node
assert_line(node, declared) ==
  LET sp == split_once(node.code, "=")
  IN IF sp = <<>> THEN <<>>
     ELSE LET var_name == trim(sp[1])
              expr == trim(sp[2])
          IN IF starts_with(expr, <<"f">>) /\ (contains(expr, <<"\"">>) \/ contains(expr, <<"'">>))
             THEN <<"(","a","s","s","e","r","t"," ","(","="," ">> \o var_name \o <<" ">> \o parse_f_string(expr) \o <<")",")","\n">>
             ELSE IF starts_with(expr, <<"\"">>) \/ starts_with(expr, <<"'">>)
             THEN <<"(","a","s","s","e","r","t"," ","(","="," ">> \o var_name \o <<" ","\"">>
                  \o trim_matches(expr, {"f"} \cup Quotes) \o <<"\"",")",")","\n">>
             ELSE IF expr \in Range(declared)
             THEN <<"(","a","s","s","e","r","t"," ","(","="," ">> \o var_name \o <<" ">> \o expr \o <<")",")","\n">>
             ELSE <<>>

\* the goal on sink_var whatever was declared
smt_target_sink_var(declared, sink_var) == sink_var

\* the variable the goal of generate_smt is about
smt_target(declared, sink_var) ==
  IF sink_var \in Range(declared) THEN sink_var
  ELSE IF declared # <<>> THEN declared[Len(declared)]
  ELSE sink_var

SQLI_PAYLOAD == <<"'"," ","O","R"," ","'","1","'","=","'","1">>

\* generate_smt
generate_smt(nodes, sink_var) ==
  LET declared == declared_after(nodes, Len(nodes))
  IN <<"(","s","e","t","-","l","o","g","i","c"," ","Q","F","_","S",")","\n">>
     \o Cat([i \in 1..Len(declared) |->
               <<"(","d","e","c","l","a","r","e","-","c","o","n","s","t"," ">> \o declared[i] \o <<" ","S","t","r","i","n","g",")","\n">>])
     \o Cat([i \in 1..Len(nodes) |-> assert_line(nodes[i], declared)])
     \o <<"(","a","s","s","e","r","t"," ","(","s","t","r",".","c","o","n","t","a","i","n","s"," ">> \o smt_target(declared, sink_var)
     \o <<" ","\"">> \o SQLI_PAYLOAD \o <<"\"",")",")","\n">>
     \o <<"(","c","h","e","c","k","-","s","a","t",")","\n">>
     \o <<"(","g","e","t","-","m","o","d","e","l",")","\n">>

\* ------------------------------------------------------------------------
\* Z3Solver (solver.rs)
\* ------------------------------------------------------------------------
\* What running the python subprocess comes to: whether spawn, the write to
\* stdin and wait_with_output succeed, the exit status, stdout and stderr.
ProcessOutcome(sp, wr, wt, ok, out, err) ==
  [spawned |-> sp, written |-> wr, waited |-> wt, success |-> ok,
   stdout |-> out, stderr |-> err]

\* Result<Option<String>, String>
OkSome(model) == [tag |-> "OkSome", text |-> model]
OkNone == [tag |-> "OkNone", text |-> <<>>]
Err(msg) == [tag |-> "Err", text |-> msg]

\* Z3Solver::solve on the outcome o of the subprocess (the io::Error texts
\* appended to the first three messages are left out)
solve(o) ==
  IF ~o.spawned THEN Err(<<"F","a","i","l","e","d"," ","t","o"," ","s","p","a","w","n"," ","P","y","t","h","o","n"," ","Z","3"," ","p","r","o","c","e","s","s",":"," ">>)
  ELSE IF ~o.written THEN Err(<<"F","a","i","l","e","d"," ","t","o"," ","w","r","i","t","e"," ","t","o"," ","Z","3"," ","s","t","d","i","n",":"," ">>)
  ELSE IF ~o.waited THEN Err(<<"F","a","i","l","e","d"," ","t","o"," ","r","e","a","d"," ","Z","3"," ","o","u","t","p","u","t",":"," ">>)
  ELSE IF ~o.success \/ contains(o.stdout, <<"E","R","R","O","R",":">>)
       THEN Err(<<"Z","3"," ","E","r","r","o","r",":"," ">> \o o.stdout \o <<"\n","S","t","d","e","r","r",":"," ">> \o o.stderr)
  ELSE IF contains(o.stdout, <<"S","A","T">>)
       THEN OkSome(join(IF lines(o.stdout) = <<>> THEN <<>> ELSE Tail(lines(o.stdout)),
                        <<"\n">>))
  ELSE IF contains(o.stdout, <<"U","N","S","A","T">>) THEN OkNone
  ELSE Err(<<"Z","3"," ","r","e","t","u","r","n","e","d"," ","U","N","K","N","O","W","N"," ","o","r"," ","u","n","e","x","p","e","c","t","e","d"," ","o","u","t","p","u","t",":"," ">> \o o.stdout)

\* ------------------------------------------------------------------------
\* ExploitProver (prover.rs, mod.rs)
\* ------------------------------------------------------------------------
\* enum ExploitStatus
Exploitable == "Exploitable"
Safe == "Safe"
Inconclusive == "Inconclusive"
NoSinksFound == "NoSinksFound"

\* the heading of the payload text of each sink type
payload_title(sink_type) ==
  CASE sink_type = SqlInjection -> <<"S","Q","L"," ","I","n","j","e","c","t","i","o","n"," ","P","a","y","l","o","a","d","s",":">>
    [] sink_type = CommandInjection -> <<"C","o","m","m","a","n","d"," ","I","n","j","e","c","t","i","o","n"," ","P","a","y","l","o","a","d","s",":">>
    [] sink_type = CodeInjection -> <<"C","o","d","e"," ","I","n","j","e","c","t","i","o","n"," ","P","a","y","l","o","a","d","s",":">>
    [] sink_type = PathTraversal -> <<"P","a","t","h"," ","T","r","a","v","e","r","s","a","l"," ","P","a","y","l","o","a","d","s",":">>
    [] sink_type = Deserialization -> <<"I","n","s","e","c","u","r","e"," ","D","e","s","e","r","i","a","l","i","z","a","t","i","o","n"," ","P","a","y","l","o","a","d","s",":">>
    [] sink_type = Ssrf -> <<"S","S","R","F"," ","P","a","y","l","o","a","d","s",":">>
    [] sink_type = Xxe -> <<"X","X","E"," ","P","a","y","l","o","a","d","s",":">>

\* generate_payload: the heading, the target and the line put into the
\* template of the sink type (the fixed lines of the template are left out);
\* the SSRF and XXE templates take the snippet untrimmed
generate_payload(sink) ==
  [title |-> payload_title(sink.sink_type),
   target |-> IF sink.sink_type \in {Ssrf, Xxe} THEN sink.code_snippet
              ELSE trim(sink.code_snippet),
   line |-> sink.line]

\* struct AnalysisResult (analysis_time_ms, a wall-clock reading, is left
\* out); payload is <<>> for None, else <<payload>>
AnalysisResult(ok, st, ss, pl, ex, ap) ==
  [success |-> ok, status |-> st, sinks |-> ss, payload |-> pl,
   explanation |-> ex, attack_path |-> ap]

\* an explanation: the fixed text, and for an exploitable result the sink
\* type and line it names, the payload and the solver model appended to it
Explanation(text, about, model) == [text |-> text, about |-> about, model |-> model]

\* a result with status Safe in place of the early return
SafeEmptyResult ==
  AnalysisResult(TRUE, Safe, <<>>, <<>>,
    Explanation(<<"S","A","F","E",":"," ","D","a","n","g","e","r","o","u","s"," ","f","u","n","c","t","i","o","n","s"," ","d","e","t","e","c","t","e","d"," ","b","u","t"," ","n","o"," ","e","x","p","l","o","i","t","a","b","l","e"," ","p","a","t","h"," ","f","r","o","m"," ","u","s","e","r"," ","i","n","p","u","t"," ","f","o","u","n","d","."," ","T","h","e"," ","c","o","d","e"," ","a","p","p","e","a","r","s"," ","t","o"," ","b","e"," ","p","r","o","p","e","r","l","y"," ","s","a","n","i","t","i","z","e","d"," ","o","r"," ","u","s","e","s"," ","s","a","f","e"," ","p","a","t","t","e","r","n","s",".">>,
                <<>>, <<>>),
    <<>>)

\* the early return of analyze when sinks.is_empty()
NoSinksResult ==
  AnalysisResult(TRUE, NoSinksFound, <<>>, <<>>,
    Explanation(<<"N","o"," ","d","a","n","g","e","r","o","u","s"," ","f","u","n","c","t","i","o","n"," ","c","a","l","l","s"," ","(","s","i","n","k","s",")"," ","d","e","t","e","c","t","e","d"," ","i","n"," ","t","h","i","s"," ","c","o","d","e",".">>,
                <<>>, <<>>),
    <<>>)

\* counting a SQL sink only when the solver returned a model
is_verified_on_model_only(sink, solved) ==
  IF sink.sink_type = SqlInjection THEN solved.tag = "OkSome" ELSE TRUE

\* is_verified: the match on the result of solve for a SQL sink, true for
\* every other sink type
is_verified(sink, solved) ==
  IF sink.sink_type = SqlInjection THEN solved.tag \in {"OkSome", "Err"} ELSE TRUE

\* the results analyze returns after the loop over the sinks
final_result(all_sinks, counted, paths, model) ==
  IF counted # <<>>
  THEN LET primary_sink == counted[1]
           payload == generate_payload(primary_sink)
       IN AnalysisResult(TRUE, Exploitable, counted, <<payload>>,
            Explanation(<<"E","X","P","L","O","I","T","A","B","L","E",":"," ">> \o description(primary_sink.sink_type)
                          \o <<" ","d","e","t","e","c","t","e","d"," ","a","t"," ","l","i","n","e"," ">>,
                        <<primary_sink.line, payload>>, model),
            paths)
  ELSE AnalysisResult(TRUE, Safe, all_sinks, <<>>,
         Explanation(<<"S","A","F","E",":"," ","D","a","n","g","e","r","o","u","s"," ","f","u","n","c","t","i","o","n","s"," ","d","e","t","e","c","t","e","d"," ","b","u","t"," ","n","o"," ","e","x","p","l","o","i","t","a","b","l","e"," ","p","a","t","h"," ","f","r","o","m"," ","u","s","e","r"," ","i","n","p","u","t"," ","f","o","u","n","d","."," ","T","h","e"," ","c","o","d","e"," ","a","p","p","e","a","r","s"," ","t","o"," ","b","e"," ","p","r","o","p","e","r","l","y"," ","s","a","n","i","t","i","z","e","d"," ","o","r"," ","u","s","e","s"," ","s","a","f","e"," ","p","a","t","t","e","r","n","s",".">>,
                     <<>>, <<>>),
         <<>>)

\* a usize, which the integers at hand cannot hold as one number: its upper
\* 32 bits as a number and its lower 32 bits read as an i32, so that the
\* value is high * 2^32 + (low mod 2^32)
Usize(high, low) == [high |-> high, low |-> low]

\* target_line as i32: the lower 32 bits
as_i32(n) == n.low

\* i32::abs
abs(n) == IF n < 0 THEN 0 - n ELSE n

\* a window one line narrower
retain_test_narrow(line, target_line) == abs(line - as_i32(target_line)) <= 5 - 1

\* the closure of retain: (s.line as i32 - target_line as i32).abs() <= 5
retain_test(line, target_line) == abs(line - as_i32(target_line)) <= 5

\* analyze_at_line on the result analyze returned
analyze_at_line(analyzed, target_line) ==
  LET kept == SelectSeq(analyzed.sinks, LAMBDA s : retain_test(s.line, target_line))
  IN IF kept = <<>>
     THEN [analyzed EXCEPT
             !.sinks = kept,
             !.status = NoSinksFound,
             !.explanation = Explanation(<<"N","o"," ","d","a","n","g","e","r","o","u","s"," ","f","u","n","c","t","i","o","n"," ","c","a","l","l","s"," ","f","o","u","n","d"," ","n","e","a","r"," ","l","i","n","e"," ">>,
                                         <<target_line>>, <<>>)]
     ELSE [analyzed EXCEPT !.sinks = kept]

\* ------------------------------------------------------------------------
\* ProjectIndexer (indexer.rs)
\* ------------------------------------------------------------------------
\* enum SymbolKind
Function == "Function"
Class == "Class"

\* struct Symbol
Symbol(nm, kd, file, ln, module) ==
  [name |-> nm, kind |-> kd, file_path |-> file, line |-> ln, module_path |-> module]

\* struct ImportedName: alias is <<>> for None, else <<alias>>
ImportedName(nm, al) == [name |-> nm, alias |-> al]

\* struct ImportStatement
ImportStatement(module, ns, from) == [module |-> module, names |-> ns, is_from_import |-> from]

\* ProjectIndexer::new: no symbols, no imports
NewIndexer == [symbols |-> <<>>, imports |-> <<>>]

\* path_to_module for a file directly under the workspace root
path_to_module(file_path) ==
  IF ends_with(file_path, <<".","p","y">>) THEN SubSeq(file_path, 1, Len(file_path) - 3)
  ELSE file_path

\* extract_symbols: the symbols pushed for the node and then for its
\* children, in order
RECURSIVE extract_symbols(_, _, _, _)
extract_symbols(n, row, file_path, module_path) ==
  (IF n.kind \in {"function_definition", "class_definition"}
      /\ child_by_field_name(n, "name") # <<>>
   THEN <<Symbol(node_text(child_by_field_name(n, "name")[1]),
                 IF n.kind = "function_definition" THEN Function ELSE Class,
                 file_path, row + 1, module_path)>>
   ELSE <<>>)
  \o Cat([i \in 1..Len(n.kids) |-> extract_symbols(n.kids[i], row, file_path, module_path)])

\* the ImportedName of one child of an import statement, <<>> if it adds none
imported_name(child, from) ==
  IF child.kind = "dotted_name" \/ (from /\ child.kind = "identifier")
  THEN IF from /\ node_text(child) \in {<<"f","r","o","m">>, <<"i","m","p","o","r","t">>} THEN <<>>
       ELSE <<ImportedName(node_text(child), <<>>)>>
  ELSE IF child.kind = "aliased_import"
       THEN LET name_node == child_by_field_name(child, "name")
                alias_node == child_by_field_name(child, "alias")
            IN IF name_node = <<>> THEN <<>>
               ELSE <<ImportedName(node_text(name_node[1]),
                                   IF alias_node = <<>> THEN <<>>
                                   ELSE <<node_text(alias_node[1])>>)>>
  ELSE <<>>

\* collect_imports: the statements pushed for the node and its children
RECURSIVE collect_imports(_)
collect_imports(n) ==
  (IF n.kind = "import_statement"
   THEN LET names == Cat([i \in 1..Len(n.kids) |-> imported_name(n.kids[i], FALSE)])
        IN IF names = <<>> THEN <<>>
           ELSE <<ImportStatement(names[1].name, names, FALSE)>>
   ELSE IF n.kind = "import_from_statement"
   THEN LET dotted == {i \in 1..Len(n.kids) : n.kids[i].kind = "dotted_name"}
        IN IF dotted = {} THEN <<>>
           ELSE <<ImportStatement(
                    node_text(n.kids[SetMin(dotted)]),
                    Cat([i \in 1..Len(n.kids) |->
                           IF i = SetMin(dotted) THEN <<>>
                           ELSE imported_name(n.kids[i], TRUE)]),
                    TRUE)>>
   ELSE <<>>)
  \o Cat([i \in 1..Len(n.kids) |-> collect_imports(n.kids[i])])

\* HashMap::get on a map kept as a sequence of <<key, value>> entries:
\* <<>> for None, else <<value>>
map_get(m, key) ==
  LET hits == {i \in 1..Len(m) : m[i][1] = key}
  IN IF hits = {} THEN <<>> ELSE <<m[SetMin(hits)][2]>>

\* HashMap::insert: the value of the key is replaced
map_insert(m, key, value) ==
  IF map_get(m, key) = <<>> THEN Append(m, <<key, value>>)
  ELSE [i \in 1..Len(m) |-> IF m[i][1] = key THEN <<key, value>> ELSE m[i]]

\* self.symbols.entry(name).or_default().push(symbol), for each pushed symbol
RECURSIVE push_symbols(_, _)
push_symbols(symbols, pushed) ==
  IF pushed = <<>> THEN symbols
  ELSE LET old == map_get(symbols, Head(pushed).name)
       IN push_symbols(
            map_insert(symbols, Head(pushed).name,
                       Append(IF old = <<>> THEN <<>> ELSE old[1], Head(pushed))),
            Tail(pushed))

\* index_file on a file that could be read
index_file(indexer, file_path, prog) ==
  [symbols |->
     push_symbols(indexer.symbols,
                  Cat([i \in 1..Len(prog) |->
                         extract_symbols(prog[i], i - 1, file_path, path_to_module(file_path))])),
   imports |->
     map_insert(indexer.imports, file_path,
                Cat([i \in 1..Len(prog) |-> collect_imports(prog[i])]))]

\* index_workspace: index_file on every file found, a file that cannot be
\* read is skipped with a warning
RECURSIVE index_workspace(_, _, _, _)
index_workspace(indexer, py_files, files, can_read) ==
  IF py_files = <<>> THEN indexer
  ELSE index_workspace(
         IF Head(py_files) \in can_read
         THEN index_file(indexer, Head(py_files), files[Head(py_files)])
         ELSE indexer,
         Tail(py_files), files, can_read)

\* the symbol an import of from_file resolves symbol_name to: the result of
\* step 2 of resolve_symbol, <<>> if step 2 returns nothing
resolve_import(indexer, from_file, symbol_name) ==
  LET file_imports == map_get(indexer.imports, from_file)
      entries ==
        IF file_imports = <<>> THEN <<>>
        ELSE Cat([i \in 1..Len(file_imports[1]) |->
                    [k \in 1..Len(file_imports[1][i].names) |->
                       [import |-> file_imports[1][i],
                        imported_name |-> file_imports[1][i].names[k]]]])
      effective_name(e) ==
        IF e.imported_name.alias = <<>> THEN e.imported_name.name
        ELSE e.imported_name.alias[1]
      hits == {i \in 1..Len(entries) :
                 /\ effective_name(entries[i]) = symbol_name
                 /\ map_get(indexer.symbols, entries[i].imported_name.name) # <<>>}
  IN IF hits = {} THEN <<>>
     ELSE LET e == entries[SetMin(hits)]
              symbols == map_get(indexer.symbols, e.imported_name.name)[1]
              matching == {i \in 1..Len(symbols) :
                             \/ ends_with(symbols[i].module_path, e.import.module)
                             \/ ends_with(e.import.module, symbols[i].module_path)}
          IN IF matching # {} THEN <<symbols[SetMin(matching)]>>
             ELSE <<symbols[1]>>

\* resolve_symbol: <<>> for None, else <<symbol>>
resolve_symbol(indexer, from_file, symbol_name) ==
  LET symbols == map_get(indexer.symbols, symbol_name)
      local == IF symbols = <<>> THEN {}
               ELSE {i \in 1..Len(symbols[1]) : symbols[1][i].file_path = from_file}
      imported == resolve_import(indexer, from_file, symbol_name)
  IN IF local # {} THEN <<symbols[1][SetMin(local)]>>
     ELSE IF imported # <<>> THEN imported
     ELSE IF symbols = <<>> THEN <<>>
     ELSE <<symbols[1][1]>>

\* ------------------------------------------------------------------------
\* CrossFileSlicer (cross_slicer.rs)
\* ------------------------------------------------------------------------
\* a bound one hop deeper
deeper_max_depth == 3 + 1

\* max_depth: 3
max_depth == 3

\* struct CrossFileFlow
CrossFileFlow(caller, cl, fn, callee, el, targs) ==
  [caller_file |-> caller, caller_line |-> cl, function_called |-> fn,
   callee_file |-> callee, callee_line |-> el, tainted_args |-> targs]

\* struct CrossFilePathNode
CrossFilePathNode(file, ln, cd, nt, sk) ==
  [file_path |-> file, line |-> ln, code |-> cd, node_type |-> nt,
   is_entry_point |-> FALSE, is_sink |-> sk]

\* format!("{:?}", sink.sink_type)
sink_type_debug(sink_type) ==
  CASE sink_type = SqlInjection -> <<"S","q","l","I","n","j","e","c","t","i","o","n">>
    [] sink_type = CommandInjection -> <<"C","o","m","m","a","n","d","I","n","j","e","c","t","i","o","n">>
    [] sink_type = CodeInjection -> <<"C","o","d","e","I","n","j","e","c","t","i","o","n">>
    [] sink_type = PathTraversal -> <<"P","a","t","h","T","r","a","v","e","r","s","a","l">>
    [] sink_type = Deserialization -> <<"D","e","s","e","r","i","a","l","i","z","a","t","i","o","n">>
    [] sink_type = Ssrf -> <<"S","s","r","f">>
    [] sink_type = Xxe -> <<"X","x","e">>

\* the path node of a sink of the file
SinkPathNode(file, sink) ==
  CrossFilePathNode(file, sink.line, sink.code_snippet, sink_type_debug(sink.sink_type), TRUE)

\* code_snippet.split(|c| !c.is_alphanumeric() && c != '_').filter(|s| !s.is_empty())
RECURSIVE snippet_tokens(_)
snippet_tokens(s) ==
  LET seps == {i \in 1..Len(s) : ~(is_alphanumeric(s[i]) \/ s[i] = "_")}
  IN IF s = <<>> THEN <<>>
     ELSE IF seps = {} THEN <<s>>
     ELSE (IF SetMin(seps) = 1 THEN <<>> ELSE <<SubSeq(s, 1, SetMin(seps) - 1)>>)
          \o snippet_tokens(SubSeq(s, SetMin(seps) + 1, Len(s)))

\* the sink with every tainted token of its snippet pushed onto tainted_vars
populate_tainted_vars(sl, sink) ==
  [sink EXCEPT !.tainted_vars =
     @ \o SelectSeq(snippet_tokens(sink.code_snippet), LAMBDA token : is_tainted(sl, token))]

\* extract_identifiers_from_node: the names pushed, in order
RECURSIVE extract_identifiers_from_node(_)
extract_identifiers_from_node(n) ==
  IF n.kind = "identifier" THEN <<node_text(n)>>
  ELSE Cat([i \in 1..Len(n.kids) |-> extract_identifiers_from_node(n.kids[i])])

\* find_function_calls: (func_name, line, args) of the node, then of its children
RECURSIVE find_function_calls(_, _)
find_function_calls(n, row) ==
  (IF n.kind = "call" /\ child_by_field_name(n, "function") # <<>>
   THEN LET args_node == child_by_field_name(n, "arguments")
        IN <<[call_name |-> node_text(child_by_field_name(n, "function")[1]),
              call_line |-> row + 1,
              args |-> IF args_node = <<>> THEN <<>>
                       ELSE Cat([i \in 1..Len(args_node[1].kids) |->
                                   extract_identifiers_from_node(args_node[1].kids[i])])]>>
   ELSE <<>>)
  \o Cat([i \in 1..Len(n.kids) |-> find_function_calls(n.kids[i], row)])

\* the two substring tests of the closure alone
sink_is_reachable_by_name(tainted_args, sink) ==
  \E i \in 1..Len(tainted_args) : \E k \in 1..Len(sink.tainted_vars) :
    \/ contains(sink.tainted_vars[k], tainted_args[i])
    \/ contains(tainted_args[i], sink.tainted_vars[k])

\* the test of the closure over tainted_args and sink.tainted_vars
sink_is_reachable(tainted_args, sink) ==
  \E i \in 1..Len(tainted_args) : \E k \in 1..Len(sink.tainted_vars) :
    \/ contains(sink.tainted_vars[k], tainted_args[i])
    \/ contains(tainted_args[i], sink.tainted_vars[k])
    \/ sink.tainted_vars # <<>>

is_parameterized(sink) ==
  \/ contains(sink.code_snippet, <<","," ","p","a","r","a","m","s">>)
  \/ contains(sink.code_snippet, <<","," ","(">>)
  \/ contains(sink.code_snippet, <<"?">>)

\* the nodes pushed for the sinks of a callee's result
callee_sink_nodes(callee_file, tainted_args, callee_sinks) ==
  LET kept == SelectSeq(callee_sinks,
                        LAMBDA sink : sink_is_reachable(tainted_args, sink)
                                      /\ ~is_parameterized(sink))
  IN [i \in 1..Len(kept) |-> SinkPathNode(callee_file, kept[i])]

\* one entry of the record of visits: the file, the depth and how the call
\* of analyze_file_internal ended
Visit(file, depth, how) == [file |-> file, depth |-> depth, how |-> how]

\* the empty result of a guarded call
EmptyResult(analyzed, log) ==
  [ok |-> TRUE, sinks |-> <<>>, cross_file_flows |-> <<>>, attack_path |-> <<>>,
   analyzed_files |-> analyzed, log |-> log]

\* a guard that never finds the file
never_analyzed(analyzed, file_path) == FALSE

\* self.analyzed_files.contains(&path_buf)
already_analyzed(analyzed, file_path) == file_path \in analyzed

\* the Err of a callee returned to the caller, as the ? operator would
callee_errors_returned(log, depth) ==
  ~\E i \in 1..Len(log) : log[i].how = "read_error" /\ log[i].depth > depth

\* if let Ok(sub_result) has no else branch and the function ends with Ok:
\* the Err of a callee is dropped
callee_errors_dropped(log, depth) == TRUE

\* the function calls of a parsed file
function_calls_of(prog) ==
  Cat([i \in 1..Len(prog) |-> find_function_calls(prog[i], i - 1)])

\* the Ok(CrossFileAnalysisResult { .. }) at the end of analyze_file_internal:
\* the file's sinks, and what the loop over the calls left in after, with
\* the file's own sinks pushed onto the attack path
file_result(file_path, depth, file_sinks, after) ==
  [ok |-> callee_errors_dropped(after.log, depth),
   sinks |-> file_sinks,
   cross_file_flows |-> after.cross_file_flows,
   attack_path |-> after.attack_path
                   \o [i \in 1..Len(file_sinks) |-> SinkPathNode(file_path, file_sinks[i])],
   analyzed_files |-> after.analyzed_files,
   log |-> after.log]

\* what one resolved call with tainted arguments adds: the flow, the
\* CROSS_FILE_CALL node and, if the callee's analysis returned Ok, the
\* callee's flows and its reachable sinks
callee_result(file_path, call, acc, symbol, tainted_args, sub_result) ==
  [cross_file_flows |->
     Append(acc.cross_file_flows,
            CrossFileFlow(file_path, call.call_line, call.call_name,
                          symbol.file_path, symbol.line, tainted_args))
     \o (IF sub_result.ok THEN sub_result.cross_file_flows ELSE <<>>),
   attack_path |->
     Append(acc.attack_path,
            CrossFilePathNode(file_path, call.call_line, call.call_name \o <<"(",".",".",".",")">>,
                              <<"C","R","O","S","S","_","F","I","L","E","_","C","A","L","L">>, FALSE))
     \o (IF sub_result.ok
         THEN callee_sink_nodes(symbol.file_path, tainted_args, sub_result.sinks)
         ELSE <<>>),
   analyzed_files |-> sub_result.analyzed_files,
   log |-> sub_result.log]

\* analyze_file_internal in the environment env = [files, can_read, indexer]
\* with self.analyzed_files = analyzed: the result (ok = FALSE for Err), the
\* analyzed_files it leaves behind and the record of visits
RECURSIVE analyze_file_internal(_, _, _, _, _)
RECURSIVE sliced_file(_, _, _, _, _, _, _, _)
RECURSIVE cross_calls(_, _, _, _, _, _)
RECURSIVE cross_call(_, _, _, _, _, _)
RECURSIVE resolved_call(_, _, _, _, _, _, _)
analyze_file_internal(env, file_path, depth, analyzed, log) ==
  IF depth > max_depth
  THEN EmptyResult(analyzed, Append(log, Visit(file_path, depth, "too_deep")))
  ELSE IF already_analyzed(analyzed, file_path)
  THEN EmptyResult(analyzed, Append(log, Visit(file_path, depth, "seen")))
  ELSE IF file_path \notin env.can_read
  THEN [ok |-> FALSE, sinks |-> <<>>, cross_file_flows |-> <<>>, attack_path |-> <<>>,
        analyzed_files |-> analyzed \cup {file_path},
        log |-> Append(log, Visit(file_path, depth, "read_error"))]
  ELSE sliced_file(env, file_path, depth, analyzed, log,
                   analyze_slicer(env.files[file_path]),
                   find_sinks(env.files[file_path]),
                   function_calls_of(env.files[file_path]))

\* the rest of analyze_file_internal once the file is read, sliced (sl),
\* searched for sinks (found) and for calls (function_calls)
sliced_file(env, file_path, depth, analyzed, log, sl, found, function_calls) ==
  file_result(file_path, depth,
              [i \in 1..Len(found) |-> populate_tainted_vars(sl, found[i])],
              cross_calls(env, file_path, depth, sl, function_calls,
                          [cross_file_flows |-> <<>>, attack_path |-> <<>>,
                           analyzed_files |-> analyzed \cup {file_path},
                           log |-> Append(log, Visit(file_path, depth, "analysed"))]))

\* for (call_name, call_line, args) in function_calls
cross_calls(env, file_path, depth, sl, function_calls, acc) ==
  IF function_calls = <<>> THEN acc
  ELSE cross_calls(env, file_path, depth, sl, Tail(function_calls),
                   cross_call(env, file_path, depth, sl, Head(function_calls), acc))

\* one turn of the loop: resolve the call, keep the tainted arguments
cross_call(env, file_path, depth, sl, call, acc) ==
  resolved_call(env, file_path, depth, call, acc,
                resolve_symbol(env.indexer, file_path, call.call_name),
                SelectSeq(call.args, LAMBDA arg : is_tainted(sl, arg)))

\* the body of the turn: nothing for a call that resolves to no function of
\* another file or passes no tainted argument, else the recursion into the
\* callee's file
resolved_call(env, file_path, depth, call, acc, symbol, tainted_args) ==
  IF \/ symbol = <<>>
     \/ symbol[1].file_path = file_path
     \/ symbol[1].kind # Function
     \/ tainted_args = <<>>
  THEN acc
  ELSE callee_result(file_path, call, acc, symbol[1], tainted_args,
                     analyze_file_internal(env, symbol[1].file_path, depth + 1,
                                           acc.analyzed_files, acc.log))

\* self.analyzed_files kept from the call before
keep_analyzed_files(analyzed) == analyzed

\* self.analyzed_files.clear()
clear_analyzed_files(analyzed) == {}

\* analyze_file
analyze_file(env, file_path, analyzed) ==
  analyze_file_internal(env, file_path, 0, clear_analyzed_files(analyzed), <<>>)
\* ------------------------------------------------------------------------
\* Analysed sources
\* ------------------------------------------------------------------------
a == <<"a">>
b == <<"b">>
c == <<"c">>

\* input()
InputCall == Call(Ident(<<"i","n","p","u","t">>), <<>>)

\* request.args.get('id')
RequestArgsGet ==
  Call(Attribute(Attribute(Ident(<<"r","e","q","u","e","s","t">>), <<"a","r","g","s">>), <<"g","e","t">>), <<StringLitSq(<<"i","d">>)>>)

\* assignments over the names a, b, c: chains, a diamond, cycles, a literal,
\* a user input and an augmented assignment
AssignPool ==
  { Assignment(Ident(a), Ident(b)),
    Assignment(Ident(b), BinaryOperator(Ident(a), <<"+">>, Ident(c))),
    Assignment(Ident(c), InputCall),
    Assignment(Ident(c), Ident(a)),
    Assignment(Ident(b), StringLit(<<"x">>)),
    AugmentedAssignment(Ident(a), Ident(b)),
    Assignment(Ident(b), Ident(c)) }

\* augmented assignments after a literal: the right-hand side a name, a
\* number, a user input; one target or two
AugPool ==
  { Assignment(Ident(a), StringLit(<<"x">>)),
    Assignment(Ident(c), InputCall),
    AugmentedAssignment(Ident(a), Ident(c)),
    AugmentedAssignment(Ident(a), Integer(<<"1">>)),
    AugmentedAssignment(Ident(b), InputCall),
    AugmentedAssignment(PatternList(<<Ident(a), Ident(b)>>), Ident(c)) }

\* one definition or lambda for every parameter form of the grammar
ParamForms ==
  { Ident(c),
    DefaultParameter(c, Integer(<<"1">>)),
    TypedParameter(c, <<"i","n","t">>),
    TypedDefaultParameter(c, <<"i","n","t">>, Integer(<<"1">>)),
    ListSplatPattern(c),
    DictionarySplatPattern(c) }

DefPool ==
  { FunctionDefinition(<<"f">>, <<p>>, PassStatement) : p \in ParamForms }
  \cup { Assignment(Ident(<<"g">>), Lambda(<<p>>, Ident(c))) : p \in ParamForms }

\* sources of the taint queries: assignments only, or one definition
\* followed by assignments
TaintPrograms ==
  SeqsUpTo(AssignPool, MaxStmts)
  \cup SeqsUpTo(AugPool, MaxStmts)
  \cup { <<d>> \o s : d \in DefPool, s \in SeqsUpTo(AssignPool, MaxStmts - 2) }

\* the names a taint query is asked about
QueryNames == {a, b, c}


\* ------------------------------------------------------------------------
\* Sources scanned for sinks: one call per source
\* ------------------------------------------------------------------------
\* the longest argument list of a scanned call
MaxArgs == 2

prm == <<"p">>
qry == <<"q">>

\* called functions: SQL, command, code, deserialization sinks and a
\* function that is no sink
CalledFunctions ==
  { Attribute(Ident(<<"c","u","r","s","o","r">>), <<"e","x","e","c","u","t","e">>),
    Attribute(Ident(<<"d","b">>), <<"r","a","w">>),
    Attribute(Ident(<<"o","s">>), <<"s","y","s","t","e","m">>),
    Ident(<<"e","v","a","l">>),
    Attribute(Ident(<<"p","i","c","k","l","e">>), <<"l","o","a","d","s">>),
    Ident(<<"p","r","i","n","t">>) }

\* arguments: a name, a literal, an f-string, a concatenation, a tuple and a
\* dictionary of parameters, a keyword argument, a nested call of a sink,
\* an attribute and a number
CallArguments ==
  { Ident(qry),
    StringLit(<<"S","E","L","E","C","T"," ","?">>),
    FString(<<"i","d"," ","="," ">>, Ident(qry), <<>>),
    BinaryOperator(StringLit(<<"i","d"," ","="," ">>), <<"+">>, Ident(qry)),
    Tuple1(Ident(prm)),
    Dict1(<<"i","d">>, Ident(prm)),
    KeywordArgument(<<"s","q","l">>, Ident(prm)),
    Call(Ident(<<"e","v","a","l">>), <<Ident(prm)>>),
    Attribute(Ident(<<"s","e","l","f">>), <<"c","m","d">>),
    Integer(<<"1">>) }

\* the call as a statement of its own, or assigned to a name
CallPrograms ==
  { <<ExpressionStatement(Call(f, args))>> :
      f \in CalledFunctions, args \in SeqsUpTo(CallArguments, MaxArgs) }
  \cup { <<Assignment(Ident(<<"r">>), Call(f, args))>> :
           f \in CalledFunctions, args \in SeqsUpTo(CallArguments, MaxArgs - 1) }

\* ------------------------------------------------------------------------
\* Sources handed to ExploitProver::analyze
\* ------------------------------------------------------------------------
\* the longest analysed source, in lines
MaxLines == 3

user_id == <<"u","s","e","r","_","i","d">>
query == <<"q","u","e","r","y">>

\* user_id = request.args.get('id')
AssignFromRequest == Assignment(Ident(user_id), RequestArgsGet)

\* query = f"SELECT * FROM users WHERE id = {user_id}"
AssignFString ==
  Assignment(Ident(query), FString(<<"S","E","L","E","C","T"," ","*"," ","F","R","O","M"," ","u","s","e","r","s"," ","W","H","E","R","E"," ","i","d"," ","="," ">>, Ident(user_id), <<>>))

\* query = "SELECT 1"
AssignLiteral == Assignment(Ident(query), StringLit(<<"S","E","L","E","C","T"," ","1">>))

\* cursor.execute(query)
ExecuteQuery ==
  ExpressionStatement(Call(Attribute(Ident(<<"c","u","r","s","o","r">>), <<"e","x","e","c","u","t","e">>), <<Ident(query)>>))

\* cursor.execute("SELECT * FROM users WHERE id = ?", (user_id,))
ExecuteParameterized ==
  ExpressionStatement(
    Call(Attribute(Ident(<<"c","u","r","s","o","r">>), <<"e","x","e","c","u","t","e">>),
         <<StringLit(<<"S","E","L","E","C","T"," ","*"," ","F","R","O","M"," ","u","s","e","r","s"," ","W","H","E","R","E"," ","i","d"," ","="," ","?">>), Tuple1(Ident(user_id))>>))

\* cursor.execute(user_id)
ExecuteUserId ==
  ExpressionStatement(Call(Attribute(Ident(<<"c","u","r","s","o","r">>), <<"e","x","e","c","u","t","e">>), <<Ident(user_id)>>))

\* os.system(user_id)
SystemCall ==
  ExpressionStatement(Call(Attribute(Ident(<<"o","s">>), <<"s","y","s","t","e","m">>), <<Ident(user_id)>>))

\* # cursor.execute(query) - this is a comment
CommentLine == Comment(<<"#"," ","c","u","r","s","o","r",".","e","x","e","c","u","t","e","(","q","u","e","r","y",")"," ","-"," ","t","h","i","s"," ","i","s"," ","a"," ","c","o","m","m","e","n","t">>)

ProverStatements ==
  { AssignFromRequest, AssignFString, AssignLiteral, ExecuteQuery, ExecuteUserId,
    ExecuteParameterized, SystemCall, CommentLine }

\* assignments whose tainted dependencies form cycles: a and b through one
\* another, an augmented assignment through itself
TraceAssignments ==
  { Assignment(Ident(c), InputCall),
    Assignment(Ident(a), StringLit(<<"x">>)),
    Assignment(Ident(a), Ident(b)),
    Assignment(Ident(b), BinaryOperator(Ident(a), <<"+">>, Ident(c))),
    AugmentedAssignment(Ident(a), Ident(c)),
    AugmentedAssignment(Ident(b), InputCall) }

\* cursor.execute(a), os.system(b + a)
TraceSinks ==
  { ExpressionStatement(Call(Attribute(Ident(<<"c","u","r","s","o","r">>), <<"e","x","e","c","u","t","e">>), <<Ident(a)>>)),
    ExpressionStatement(Call(Attribute(Ident(<<"o","s">>), <<"s","y","s","t","e","m">>),
                             <<BinaryOperator(Ident(b), <<"+">>, Ident(a))>>)) }

\* up to MaxLines assignments and a sink on the line after them
TracePrograms ==
  { s \o <<k>> : s \in SeqsUpTo(TraceAssignments, MaxLines), k \in TraceSinks }

\* sinks whose taint has no definition on a line of its own:
\* os.system(request.args.get('id')), whose taint is the pre-seeded name
\* request, and g = lambda c: os.system(c), whose parameter is defined on
\* the line of the sink
EntryPrograms ==
  { <<ExpressionStatement(Call(Attribute(Ident(<<"o","s">>), <<"s","y","s","t","e","m">>), <<RequestArgsGet>>))>>,
    <<Assignment(Ident(<<"g">>),
                 Lambda(<<Ident(c)>>,
                        Call(Attribute(Ident(<<"o","s">>), <<"s","y","s","t","e","m">>), <<Ident(c)>>)))>> }

ProverPrograms == SeqsUpTo(ProverStatements, MaxLines) \cup TracePrograms \cup EntryPrograms

\* wait_with_output returned: exit status, stdout, stderr
Exited(ok, out, err) == ProcessOutcome(TRUE, TRUE, TRUE, ok, out, err)

\* print("UNSAT")
AnswerUnsat == Exited(TRUE, <<"U","N","S","A","T","\n">>, <<>>)

\* what the python subprocess of the solver can come to: spawn, the write
\* to stdin or the wait fails; it prints SAT and the model, UNSAT, UNKNOWN;
\* it prints ERROR and exits with 1 (no z3 module) or with 0 (an exception);
\* the interpreter fails before it prints
ProcessOutcomes ==
  { ProcessOutcome(FALSE, FALSE, FALSE, FALSE, <<>>, <<>>),
    ProcessOutcome(TRUE, FALSE, FALSE, FALSE, <<>>, <<>>),
    ProcessOutcome(TRUE, TRUE, FALSE, FALSE, <<>>, <<>>),
    Exited(TRUE, <<"S","A","T","\n","[","u","s","e","r","_","i","d"," ","="," ","\"","'"," ","O","R"," ","'","1","'","=","'","1","\"","]","\n">>, <<>>),
    AnswerUnsat,
    Exited(TRUE, <<"U","N","K","N","O","W","N","\n">>, <<>>),
    Exited(FALSE, <<"E","R","R","O","R",":"," ","z","3","-","s","o","l","v","e","r"," ","n","o","t"," ","i","n","s","t","a","l","l","e","d","\n">>, <<>>),
    Exited(TRUE, <<"E","R","R","O","R",":"," ","p","a","r","s","e","\n">>, <<>>),
    Exited(FALSE, <<>>, <<"T","r","a","c","e","b","a","c","k">>) }

\* the target lines analyze_at_line is called with: a line with the first
\* lines of a source on both sides of the far end of its window, a line
\* with the first lines out of the window, and a line above i32::MAX,
\* 2^32 - 3
MaxTarget == 9
TargetLines == {Usize(0, MaxTarget - 2), Usize(0, MaxTarget), Usize(0, 0 - 3)}

\* ------------------------------------------------------------------------
\* Workspaces handed to CrossFileSlicer
\* ------------------------------------------------------------------------
\* the most files of a workspace, and the most top-level calls of
\* analyze_file on one CrossFileSlicer
MaxFiles == 5
MaxCalls == 2

data == <<"d","a","t","a">>

Digit(i) == <<"0", "1", "2", "3", "4", "5", "6", "7", "8", "9">>[i + 1]

\* f0.py, f1.py, ... ; file i defines the function gi
FileName(i) == <<"f">> \o <<Digit(i)>> \o <<".","p","y">>
FuncName(i) == <<"g">> \o <<Digit(i)>>

\* the argument of the cross-file calls of a workspace: the tainted
\* parameter, a taint source, a name without a definition
CallArgs == {Ident(data), InputCall, Ident(<<"y">>)}

\* def gi(data): gj(arg)   or   def gi(data): pass
CallerDef(i, next, arg) ==
  FunctionDefinition(
    FuncName(i), <<Ident(data)>>,
    IF next = <<>> THEN PassStatement
    ELSE ExpressionStatement(Call(Ident(FuncName(next[1])), <<arg>>)))

\* def s(data): cursor.execute(data)
ExecuteDef ==
  FunctionDefinition(<<"s">>, <<Ident(data)>>,
    ExpressionStatement(Call(Attribute(Ident(<<"c","u","r","s","o","r">>), <<"e","x","e","c","u","t","e">>), <<Ident(data)>>)))

\* def s(query, params): cursor.execute(query, params)
ExecuteParamsDef ==
  FunctionDefinition(<<"s">>, <<Ident(query), Ident(<<"p","a","r","a","m","s">>)>>,
    ExpressionStatement(Call(Attribute(Ident(<<"c","u","r","s","o","r">>), <<"e","x","e","c","u","t","e">>),
                             <<Ident(query), Ident(<<"p","a","r","a","m","s">>)>>)))

\* def s(cmd): os.system(cmd)
SystemDef ==
  FunctionDefinition(<<"s">>, <<Ident(<<"c","m","d">>)>>,
    ExpressionStatement(Call(Attribute(Ident(<<"o","s">>), <<"s","y","s","t","e","m">>), <<Ident(<<"c","m","d">>)>>)))

\* the sink statements of a file: none or one definition with a sink
SinkShapes == {<<>>, <<ExecuteDef>>, <<ExecuteParamsDef>>, <<SystemDef>>}

\* a workspace: its files in the order find_python_files lists them, and
\* the parsed source of each
Workspace(order, sources) ==
  [order |-> order, files |-> [f \in Range(order) |-> sources[CHOOSE i \in 1..Len(order) : order[i] = f]]]

\* n files in a chain: file i calls the function of file i + 1, the last
\* file calls the function of file back[1] or nothing; every file has the
\* sink statements of the shape
Chain(n, back, shape, arg) ==
  Workspace([i \in 1..n |-> FileName(i - 1)],
            [i \in 1..n |->
               <<CallerDef(i - 1, IF i < n THEN <<i>> ELSE back, arg)>> \o shape])

\* f0.py calls the functions of f1.py and of f2.py
Star(shape, arg) ==
  Workspace(<<FileName(0), FileName(1), FileName(2)>>,
            << <<CallerDef(0, <<1>>, arg),
                 FunctionDefinition(<<"k","0">>, <<Ident(data)>>,
                   ExpressionStatement(Call(Ident(FuncName(2)), <<arg>>)))>>,
               <<CallerDef(1, <<>>, arg)>> \o shape,
               <<CallerDef(2, <<>>, arg)>> \o shape >>)

main_py == <<"m","a","i","n",".","p","y">>
utils_py == <<"u","t","i","l","s",".","p","y">>
run_query == <<"r","u","n","_","q","u","e","r","y">>

\* main.py: from utils import run_query / def main(params): run_query(arg)
\* utils.py: def run_query(data): cursor.execute(data)
\* imported under its name or under the alias rq
MainAndUtils(params, arg, alias) ==
  Workspace(<<main_py, utils_py>>,
            << << FromImport(<<"u","t","i","l","s">>,
                             <<IF alias THEN AliasedImport(run_query, <<"r","q">>)
                               ELSE DottedName(run_query)>>),
                  FunctionDefinition(<<"m","a","i","n">>, params,
                    ExpressionStatement(
                      Call(Ident(IF alias THEN <<"r","q">> ELSE run_query), <<arg>>))) >>,
               << FunctionDefinition(run_query, <<Ident(data)>>,
                    ExpressionStatement(Call(Attribute(Ident(<<"c","u","r","s","o","r">>), <<"e","x","e","c","u","t","e">>),
                                             <<Ident(data)>>))) >> >>)

BackEdges(n) == {<<>>} \cup {<<i>> : i \in 0..(n - 1)}

\* short chains with every sink shape and back edge, and with every argument
\* of the call; chains of three files with every back edge; long open
\* chains; the star; the two-file scenario of the tests
Workspaces ==
  UNION {{Chain(n, back, shape, Ident(data)) : back \in BackEdges(n), shape \in SinkShapes}
         : n \in 1..2}
  \cup {Chain(2, back, <<ExecuteDef>>, arg) : back \in BackEdges(2),
                                             arg \in CallArgs \ {Ident(data)}}
  \cup {Chain(3, back, <<ExecuteDef>>, Ident(data)) : back \in BackEdges(3)}
  \cup {Chain(n, <<>>, <<ExecuteDef>>, Ident(data)) : n \in 4..MaxFiles}
  \cup {Star(shape, Ident(data)) : shape \in SinkShapes \ {<<>>}}
  \cup {MainAndUtils(<<>>, InputCall, FALSE),
        MainAndUtils(<<Ident(<<"x">>)>>, Ident(<<"x">>), FALSE),
        MainAndUtils(<<Ident(<<"x">>)>>, Ident(<<"x">>), TRUE)}

\* a path that names no file of the workspace
nonexistent_py == <<"n","o","n","e","x","i","s","t","e","n","t",".","p","y">>

\* ------------------------------------------------------------------------
\* Paths handed to generate_smt
\* ------------------------------------------------------------------------
\* the most nodes of a path
MaxNodes == 3

\* the code of a node: an assignment from an entry point, an f-string over
\* a variable, a literal, a copy of a variable, a second assignment of a
\* name, left sides that are no names (digit first, attribute, a call with
\* a keyword argument), a literal that starts and ends with the letter of
\* the f-string prefix, and an augmented assignment
NodeCodes ==
  { <<"u","s","e","r","_","i","d"," ","="," ","r","e","q","u","e","s","t",".","a","r","g","s",".","g","e","t","(","'","i","d","'",")">>,
    <<"q","u","e","r","y"," ","="," ","f","\"","S","E","L","E","C","T"," ","{","u","s","e","r","_","i","d","}","\"">>,
    <<"q","u","e","r","y"," ","="," ","'","S","E","L","E","C","T"," ","1","'">>,
    <<"q","2"," ","="," ","q","u","e","r","y">>,
    <<"1","x"," ","="," ","\"","a","\"">>,
    <<"s","e","l","f",".","q"," ","="," ","q","u","e","r","y">>,
    <<"c","u","r","s","o","r",".","e","x","e","c","u","t","e","(","q","u","e","r","y",","," ","t","i","m","e","o","u","t","=","5",")">>,
    <<"s","t","a","t","u","s"," ","="," ","\"","o","f","f","\"">>,
    <<"x"," ","+","="," ","'","a","'">> }

\* the paths: node i on line i
SmtPaths ==
  {[i \in 1..Len(codes) |-> PathNode(i, codes[i], <<>>)] : codes \in SeqsUpTo(NodeCodes, MaxNodes)}

\* sink_var: a name the paths declare, names they never declare, and the
\* snippet of a sink, which analyze passes
SinkVars == { <<"q","u","e","r","y">>, <<"u","s","e","r","_","i","d">>, <<"d","a","t","a">>, <<"c","u","r","s","o","r",".","e","x","e","c","u","t","e","(","q","u","e","r","y",")">> }
\* ------------------------------------------------------------------------
\* State
\* ------------------------------------------------------------------------
VARIABLES
  source,      \* the parsed source under analysis, one statement per line
  pc,          \* position of the caller of the analysis
  slicer,      \* BackwardSlicer: definitions and tainted
  queryVar,    \* the name of the running or last is_tainted query
  visited,     \* the HashSet is_tainted hands to is_tainted_recursive
  stack,       \* frames of is_tainted_recursive: variable, def index, dep index
  pending,     \* the call being entered or the value being returned
  expanded,    \* names inserted into visited by the running query, in order
  steps,       \* turns of is_tainted_recursive taken by the running query
  nQueries,    \* is_tainted queries asked so far
  answers,     \* per name, the booleans is_tainted has returned so far
  sinks,       \* the Vec<Sink> find_sinks returned
  sinkIdx,     \* position of the loop of analyze over the sinks
  path,        \* the path trace_to_entry_point returned for the sink at hand
  smt_script,  \* the script generate_smt returned for the sink at hand
  trail,       \* per sink handled by the loop: path, script, solver run, count
  exploitable_sinks,  \* analyze: the sinks counted so far
  attack_paths,       \* analyze: the paths of the sinks counted so far
  z3_proof_model,     \* analyze: the last model the solver returned
  result,      \* the AnalysisResult returned, <<>> before the return
  workspace,   \* the python files under the workspace root and their sources
  can_read,    \* the files fs::read_to_string succeeds on
  indexer,     \* CrossFileSlicer.indexer: symbols and imports
  analyzed_files,  \* CrossFileSlicer.analyzed_files
  nCalls,      \* top-level calls of analyze_file so far
  stale_files, \* analyzed_files as the last top-level call found it
  last_file,   \* the argument of the last top-level call, <<>> before it
  last_result, \* what the last top-level call returned, <<>> before it
  target_line, \* the target_line analyze_at_line was called with, <<>> before it
  line_result, \* the AnalysisResult analyze_at_line returned, <<>> before it
  sink_var     \* the sink_var generate_smt is called with on a path of its own

slicerVars == <<source, slicer>>
dfsVars == <<queryVar, visited, stack, pending, expanded, steps, nQueries, answers>>
proverVars == <<sinks, sinkIdx, path, smt_script, trail, exploitable_sinks,
                attack_paths, z3_proof_model, result>>
atLineVars == <<target_line, line_result, sink_var>>
crossVars == <<workspace, can_read, indexer, analyzed_files, nCalls, stale_files, last_file,
               last_result>>
vars == <<source, pc, slicer, queryVar, visited, stack, pending, expanded, steps,
          nQueries, answers, sinks, sinkIdx, path, smt_script, trail,
          exploitable_sinks, attack_paths, z3_proof_model, result,
          workspace, can_read, indexer, analyzed_files, nCalls, stale_files,
          last_file, last_result, target_line, line_result, sink_var>>

\* BackwardSlicer::new()
NewSlicer == [definitions |-> NoDefinitions, tainted |-> {}]

NoPending == [op |-> "none"]
PendingCall(v) == [op |-> "call", var |-> v]
PendingRet(r) == [op |-> "ret", val |-> r]

DfsIdle ==
  /\ queryVar = <<>>
  /\ visited = {}
  /\ stack = <<>>
  /\ pending = NoPending
  /\ expanded = <<>>
  /\ steps = 0
  /\ nQueries = 0
  /\ answers = [v \in QueryNames |-> {}]


\* no analysis under way: the locals of analyze before its first statement
ProverIdle ==
  /\ sinks = <<>>
  /\ sinkIdx = 0
  /\ path = <<>>
  /\ smt_script = <<>>
  /\ trail = <<>>
  /\ exploitable_sinks = <<>>
  /\ attack_paths = <<>>
  /\ z3_proof_model = <<>>
  /\ result = <<>>
  /\ target_line = <<>>
  /\ line_result = <<>>
  /\ sink_var = <<>>

\* no CrossFileSlicer constructed
CrossIdle ==
  /\ workspace = <<>>
  /\ can_read = {}
  /\ indexer = NewIndexer
  /\ analyzed_files = {}
  /\ nCalls = 0
  /\ stale_files = {}
  /\ last_file = <<>>
  /\ last_result = <<>>
\* ------------------------------------------------------------------------
\* Taint queries on an analysed source
\* ------------------------------------------------------------------------
InitTaint ==
  /\ source \in TaintPrograms
  /\ pc = "new"
  /\ slicer = NewSlicer
  /\ DfsIdle
  /\ ProverIdle
  /\ CrossIdle

\* slicer.analyze(source, &tree)
SlicerAnalyze ==
  /\ pc = "new"
  /\ slicer' = analyze_slicer(source)
  /\ pc' = "analyzed"
  /\ UNCHANGED <<crossVars, atLineVars, source, dfsVars, proverVars>>

\* the visited set kept from the query before
stale_visited(old) == old

\* &mut HashSet::new(): every query starts from an empty visited set
new_visited(old) == {}

\* is_tainted(var_name): the call of is_tainted_recursive is entered next;
\* the caller asks about one name, and asks again
StartQuery(v) ==
  /\ pc = "analyzed"
  /\ nQueries < MaxQueries
  /\ nQueries = 0 \/ v = queryVar
  /\ nQueries' = nQueries + 1
  /\ steps' = 0
  /\ pc' = "query"
  /\ queryVar' = v
  /\ visited' = new_visited(visited)
  /\ stack' = <<>>
  /\ pending' = PendingCall(v)
  /\ expanded' = <<>>
  /\ UNCHANGED <<crossVars, atLineVars, proverVars, slicerVars, answers>>

\* visited.insert(var_name)
mark_visited(sl, vis, v) == vis \cup {v}

\* entry of is_tainted_recursive: cycle check, insert, direct taint
DfsEnter ==
  /\ pc = "query"
  /\ pending.op = "call"
  /\ LET v == pending.var
     IN IF v \in visited
        THEN /\ pending' = PendingRet(FALSE)
             /\ UNCHANGED <<crossVars, atLineVars, visited, stack, expanded>>
        ELSE /\ visited' = mark_visited(slicer, visited, v)
             /\ expanded' = Append(expanded, v)
             /\ IF v \in slicer.tainted
                THEN /\ pending' = PendingRet(TRUE)
                     /\ stack' = stack
                ELSE IF v \in DOMAIN slicer.definitions
                THEN /\ pending' = NoPending
                     /\ stack' = Append(stack, [var |-> v, di |-> 1, ki |-> 1])
                ELSE /\ pending' = PendingRet(FALSE)
                     /\ stack' = stack
  /\ steps' = steps + 1
  /\ UNCHANGED <<crossVars, atLineVars, proverVars, slicerVars, pc, queryVar, nQueries, answers>>

\* one turn of the loops over defs and def.dependencies in the frame fr
advance(sl, fr) ==
  LET defs == sl.definitions[fr.var]
  IN IF fr.di > Len(defs) THEN [op |-> "ret", val |-> FALSE]
     ELSE LET def == defs[fr.di]
          IN IF def.value_source.tag \in {"UserInput", "Parameter"}
             THEN [op |-> "ret", val |-> TRUE]
             ELSE IF def.value_source.tag = "Derived" /\ fr.ki <= Len(def.dependencies)
             THEN [op |-> "call", var |-> def.dependencies[fr.ki],
                   frame |-> [fr EXCEPT !.ki = fr.ki + 1]]
             ELSE [op |-> "loop", frame |-> [fr EXCEPT !.di = fr.di + 1, !.ki = 1]]

Pop(s) == SubSeq(s, 1, Len(s) - 1)
Top(s) == s[Len(s)]

\* the body of is_tainted_recursive between two recursive calls
DfsAdvance ==
  /\ pc = "query"
  /\ pending.op = "none"
  /\ stack # <<>>
  /\ LET step == advance(slicer, Top(stack))
     IN IF step.op = "ret"
        THEN /\ stack' = Pop(stack)
             /\ pending' = PendingRet(step.val)
        ELSE IF step.op = "call"
        THEN /\ stack' = Append(Pop(stack), step.frame)
             /\ pending' = PendingCall(step.var)
        ELSE /\ stack' = Append(Pop(stack), step.frame)
             /\ pending' = NoPending
  /\ steps' = steps + 1
  /\ UNCHANGED <<crossVars, atLineVars, proverVars, slicerVars, pc, queryVar, visited, expanded, nQueries, answers>>

\* a recursive call returns into the loop over the dependencies:
\* true is returned at once, false continues the loop
DfsReturn ==
  /\ pc = "query"
  /\ pending.op = "ret"
  /\ stack # <<>>
  /\ IF pending.val
     THEN /\ stack' = Pop(stack)
          /\ pending' = pending
     ELSE /\ stack' = stack
          /\ pending' = NoPending
  /\ steps' = steps + 1
  /\ UNCHANGED <<crossVars, atLineVars, proverVars, slicerVars, pc, queryVar, visited, expanded, nQueries, answers>>

\* the outermost call returns to the caller of is_tainted
FinishQuery ==
  /\ pc = "query"
  /\ pending.op = "ret"
  /\ stack = <<>>
  /\ answers' = [answers EXCEPT ![queryVar] = @ \cup {pending.val}]
  /\ pending' = NoPending
  /\ pc' = "analyzed"
  /\ steps' = steps + 1
  /\ UNCHANGED <<crossVars, atLineVars, proverVars, slicerVars, queryVar, visited, stack, expanded, nQueries>>

DfsStep == DfsEnter \/ DfsAdvance \/ DfsReturn \/ FinishQuery

NextTaint ==
  \/ SlicerAnalyze
  \/ \E v \in QueryNames : StartQuery(v)
  \/ DfsEnter
  \/ DfsAdvance
  \/ DfsReturn
  \/ FinishQuery

SpecTaint == InitTaint /\ [][NextTaint]_vars

\* ------------------------------------------------------------------------
\* Properties of the taint query
\* ------------------------------------------------------------------------
DefsOf(sl, n) ==
  IF n \in DOMAIN sl.definitions
  THEN {sl.definitions[n][i] : i \in 1..Len(sl.definitions[n])}
  ELSE {}

\* the names the Derived definitions of n read
DerivedDeps(sl, n) ==
  UNION {Range(d.dependencies) : d \in {e \in DefsOf(sl, n) : e.value_source.tag = "Derived"}}

\* every name that occurs in the slicer state or can be asked about
AllNames(sl) ==
  DOMAIN sl.definitions \cup sl.tainted \cup QueryNames
  \cup UNION {Range(d.dependencies) : d \in UNION {DefsOf(sl, n) : n \in DOMAIN sl.definitions}}

\* names tainted at the source: direct taint, or a UserInput or Parameter definition
TaintRoots(sl) ==
  sl.tainted \cup
  {n \in DOMAIN sl.definitions :
     \E d \in DefsOf(sl, n) : d.value_source.tag \in {"UserInput", "Parameter"}}

\* least fixed point: a name is tainted if a Derived definition of it reads a tainted name
RECURSIVE TaintClosure(_, _)
TaintClosure(sl, S) ==
  LET T == S \cup {n \in DOMAIN sl.definitions : DerivedDeps(sl, n) \cap S # {}}
  IN IF T = S THEN S ELSE TaintClosure(sl, T)

TaintLfp(sl) == TaintClosure(sl, TaintRoots(sl))

\* names reachable from n over one or more Derived dependency edges
RECURSIVE ReachFrom(_, _)
ReachFrom(sl, S) ==
  LET T == S \cup UNION {DerivedDeps(sl, m) : m \in S}
  IN IF T = S THEN S ELSE ReachFrom(sl, T)

OnCycle(sl, n) == n \in ReachFrom(sl, DerivedDeps(sl, n))

\* C1: after analyze, is_tainted(v) holds exactly for the names of the least
\* fixed point of "directly tainted, or has a UserInput or Parameter
\* definition, or has a Derived definition that reads a tainted name"; the
\* answer the query returns to its caller is that same boolean, cyclic
\* definition maps included.
C1_TaintIsLeastFixedPoint ==
  pc = "analyzed" =>
    /\ \A v \in AllNames(slicer) : is_tainted(slicer, v) = (v \in TaintLfp(slicer))
    /\ \A v \in QueryNames : answers[v] \subseteq {v \in TaintLfp(slicer)}

\* a query on a name of a dependency cycle that is tainted only through its
\* dependencies has answered true
C1_Witness ==
  /\ pc = "analyzed"
  /\ queryVar # <<>>
  /\ answers[queryVar] = {TRUE}
  /\ queryVar \notin TaintRoots(slicer)
  /\ OnCycle(slicer, queryVar)

\* total number of definitions, and of dependency entries, in the map
RECURSIVE DepLen(_)
DepLen(defs) == IF defs = <<>> THEN 0 ELSE Len(Head(defs).dependencies) + DepLen(Tail(defs))

RECURSIVE DefCountIn(_, _)
DefCountIn(sl, S) ==
  IF S = {} THEN 0
  ELSE LET n == CHOOSE x \in S : TRUE
       IN Len(sl.definitions[n]) + DefCountIn(sl, S \ {n})

RECURSIVE DepCountIn(_, _)
DepCountIn(sl, S) ==
  IF S = {} THEN 0
  ELSE LET n == CHOOSE x \in S : TRUE
       IN DepLen(sl.definitions[n]) + DepCountIn(sl, S \ {n})

DefCount(sl) == DefCountIn(sl, DOMAIN sl.definitions)
DepCount(sl) == DepCountIn(sl, DOMAIN sl.definitions)

\* turns one query can take if every name is expanded once: one entry per
\* dependency entry and the root, one loop turn per definition, dependency
\* and frame, one return per entry
StepBound(sl) == 3 * DepCount(sl) + DefCount(sl) + Cardinality(DOMAIN sl.definitions) + 2

NoDuplicates(s) == \A i, j \in 1..Len(s) : i # j => s[i] # s[j]

\* C2: a query expands (inserts into visited) each name at most once, takes a
\* bounded number of turns and can always take its next turn until it
\* returns, so it terminates on every definition map, cyclic ones included;
\* asked again on the same slicer state it returns the same boolean.
C2_QueryTerminatesAndRepeats ==
  /\ NoDuplicates(expanded)
  /\ steps <= StepBound(slicer)
  /\ pc = "query" => ENABLED DfsStep
  /\ \A v \in QueryNames : Cardinality(answers[v]) <= 1

\* the 3-cycle a -> b -> c -> a has been asked about a twice
C2_Witness ==
  /\ source = << Assignment(Ident(a), Ident(b)),
                 Assignment(Ident(b), Ident(c)),
                 Assignment(Ident(c), Ident(a)) >>
  /\ pc = "analyzed"
  /\ nQueries = 2
  /\ queryVar = a
  /\ answers = [v \in QueryNames |-> IF v = a THEN {FALSE} ELSE {}]
  /\ expanded = <<a, b, c>>

\* ------------------------------------------------------------------------
\* Augmented assignments
\* ------------------------------------------------------------------------
\* the assignment node of line i of the source, <<>> if the line is none
AssignmentAt(prog, i) ==
  IF /\ i \in 1..Len(prog)
     /\ prog[i].kind = "expression_statement"
     /\ prog[i].kids[1].kind \in {"assignment", "augmented_assignment"}
  THEN <<prog[i].kids[1]>> ELSE <<>>

AugmentedLines(prog) ==
  {i \in 1..Len(prog) :
     AssignmentAt(prog, i) # <<>> /\ AssignmentAt(prog, i)[1].kind = "augmented_assignment"}

\* lines that assign a literal to x with a plain assignment
LiteralLines(prog, x) ==
  {i \in 1..Len(prog) :
     /\ AssignmentAt(prog, i) # <<>>
     /\ AssignmentAt(prog, i)[1].kind = "assignment"
     /\ node_text(child_by_field_name(AssignmentAt(prog, i)[1], "left")[1]) = x
     /\ analyze_value(child_by_field_name(AssignmentAt(prog, i)[1], "right")[1],
                      node_text(child_by_field_name(AssignmentAt(prog, i)[1], "right")[1]))[1]
          = Literal}

\* the right-hand side of the assignment n is a user input or reads a tainted name
RightIsTainted(sl, n) ==
  LET right == child_by_field_name(n, "right")[1]
  IN \/ analyze_value(right, node_text(right))[1].tag = "UserInput"
     \/ Range(extract_identifiers(right)) \cap TaintLfp(sl) # {}

TargetsAt(prog, i) ==
  Range(extract_identifiers(child_by_field_name(AssignmentAt(prog, i)[1], "left")[1]))

\* C11: every definition made from an augmented assignment x += y lists x
\* among its dependencies, one definition for every target and for every
\* classification of the right-hand side; a name assigned a literal and
\* later augmented with a tainted value is tainted.
C11_AugmentedDependsOnTarget ==
  pc = "analyzed" =>
    /\ \A i \in AugmentedLines(source) : \A x \in TargetsAt(source, i) :
         /\ \E d \in DefsOf(slicer, x) : d.line = i
         /\ \A d \in DefsOf(slicer, x) : d.line = i => x \in Range(d.dependencies)
    /\ \A i \in AugmentedLines(source) : \A x \in TargetsAt(source, i) :
         (/\ \E l \in LiteralLines(source, x) : l < i
          /\ RightIsTainted(slicer, AssignmentAt(source, i)[1]))
         => /\ is_tainted(slicer, x)
            /\ answers[x] \subseteq {TRUE}

\* a = "x"; c = input(); a += c has been analysed and a was answered tainted
C11_Witness ==
  /\ source = << Assignment(Ident(a), StringLit(<<"x">>)),
                 Assignment(Ident(c), InputCall),
                 AugmentedAssignment(Ident(a), Ident(c)) >>
  /\ pc = "analyzed"
  /\ answers[a] = {TRUE}
  /\ \E d \in DefsOf(slicer, a) :
       d.line = 3 /\ d.value_source = Derived /\ d.dependencies = <<c, a>>

\* ------------------------------------------------------------------------
\* Function and lambda parameters
\* ------------------------------------------------------------------------
\* the identifier a parameter names: the first identifier of the parameter
\* node in source order (the name precedes any annotation or default)
RECURSIVE first_identifier(_)
first_identifier(n) ==
  IF n.kind = "identifier" THEN <<n.text>>
  ELSE LET found == Cat([i \in 1..Len(n.kids) |-> first_identifier(n.kids[i])])
       IN IF found = <<>> THEN <<>> ELSE <<found[1]>>

\* the parameter nodes of the function definitions and lambdas of a node
RECURSIVE parameter_nodes(_)
parameter_nodes(n) ==
  (IF n.kind \in {"function_definition", "lambda"}
      /\ child_by_field_name(n, "parameters") # <<>>
   THEN named_children(child_by_field_name(n, "parameters")[1])
   ELSE <<>>)
  \o Cat([i \in 1..Len(n.kids) |-> parameter_nodes(n.kids[i])])

\* <<row, parameter>> for every parameter of the analysed source
SourceParameters(prog) ==
  UNION { { <<i, p>> : p \in Range(parameter_nodes(prog[i])) } : i \in 1..Len(prog) }

\* C10: after analyze, every parameter of every function definition and
\* lambda -- plain, defaulted, typed, typed with default, *args, **kwargs --
\* has a Parameter definition under its bare name on the line of the
\* definition, and is_tainted of that bare name is true.
C10_ParametersTaintedByBareName ==
  pc = "analyzed" =>
    \A rp \in SourceParameters(source) :
      LET name == first_identifier(rp[2])[1]
      IN /\ name \in DOMAIN slicer.definitions
         /\ \E i \in 1..Len(slicer.definitions[name]) :
              /\ slicer.definitions[name][i].value_source = Parameter
              /\ slicer.definitions[name][i].line = rp[1]
         /\ is_tainted(slicer, name)

\* the forms for which the binding is under the bare name
BareNameForms == {"identifier", "default_parameter", "typed_default_parameter"}

\* C10 restricted to the forms the code binds by the identifier: plain,
\* defaulted and typed-with-default parameters are tainted by bare name
C10_BareFormsTainted ==
  pc = "analyzed" =>
    \A rp \in SourceParameters(source) :
      rp[2].kind \in BareNameForms =>
        LET name == first_identifier(rp[2])[1]
        IN /\ name \in DOMAIN slicer.definitions
           /\ \E i \in 1..Len(slicer.definitions[name]) :
                /\ slicer.definitions[name][i].value_source = Parameter
                /\ slicer.definitions[name][i].line = rp[1]
           /\ is_tainted(slicer, name)

\* the other forms are bound under the text the code takes: the whole
\* "name: type" of a typed parameter, the "*" or "**" token of a splat
C10_OtherFormsBoundUnderText ==
  pc = "analyzed" =>
    \A rp \in SourceParameters(source) :
      rp[2].kind \notin BareNameForms =>
        LET bound == IF rp[2].kind = "typed_parameter" THEN rp[2].text
                     ELSE rp[2].kids[1].text
        IN /\ bound # first_identifier(rp[2])[1]
           /\ bound \in DOMAIN slicer.definitions
           /\ is_tainted(slicer, bound)

\* ------------------------------------------------------------------------
\* The slicer of an empty source
\* ------------------------------------------------------------------------
\* C23: after analyze on an empty source the definition map of the slicer
\* is empty and its set of directly tainted names is empty
C23_EmptySourceLeavesSlicerEmpty ==
  (pc # "new" /\ source = <<>>) =>
    /\ DOMAIN slicer.definitions = {}
    /\ slicer.tainted = {}

\* ------------------------------------------------------------------------
\* Sink detection on a scanned source
\* ------------------------------------------------------------------------
InitParser ==
  /\ source \in CallPrograms
  /\ pc = "parse"
  /\ slicer = NewSlicer
  /\ DfsIdle
  /\ ProverIdle
  /\ CrossIdle

\* parser.find_sinks(source)
ParserFindSinks ==
  /\ pc = "parse"
  /\ sinks' = find_sinks(source)
  /\ pc' = "parsed"
  /\ UNCHANGED <<crossVars, atLineVars, slicerVars, dfsVars, sinkIdx, path, smt_script, trail,
                 exploitable_sinks, attack_paths, z3_proof_model, result>>

NextParser == ParserFindSinks

SpecParser == InitParser /\ [][NextParser]_vars

\* the texts of the identifier nodes below a node
RECURSIVE IdentifiersIn(_)
IdentifiersIn(n) ==
  (IF n.kind = "identifier" THEN {n.text} ELSE {})
  \cup UNION {IdentifiersIn(n.kids[i]) : i \in 1..Len(n.kids)}

\* the kinds of the nodes below a node, the node included
RECURSIVE KindsIn(_)
KindsIn(n) == {n.kind} \cup UNION {KindsIn(n.kids[i]) : i \in 1..Len(n.kids)}

\* a string without interpolation
PureLiteral(n) == n.kind = "string" /\ "interpolation" \notin KindsIn(n)

\* <<line, call node>> for every call of the source
RECURSIVE CallsIn(_, _)
CallsIn(n, line) ==
  (IF n.kind = "call" THEN {<<line, n>>} ELSE {})
  \cup UNION {CallsIn(n.kids[i], line) : i \in 1..Len(n.kids)}

SourceCalls(prog) == UNION {CallsIn(prog[i], i) : i \in 1..Len(prog)}

\* the arguments of a call, punctuation left out
ArgumentsOf(call) == named_children(child_by_field_name(call, "arguments")[1])

\* the sinks emitted for a call: those on its line with its text
SinksOf(lc) ==
  {i \in 1..Len(sinks) : sinks[i].line = lc[1] /\ sinks[i].code_snippet = lc[2].text}

\* the calls of the source classified as the given sink type
CallsOfType(t) ==
  {lc \in SourceCalls(source) :
     classify_sink(child_by_field_name(lc[2], "function")[1].text) = <<t>>}

\* the calls of the source that match a sink pattern
SinkCalls ==
  {lc \in SourceCalls(source) :
     classify_sink(child_by_field_name(lc[2], "function")[1].text) # <<>>}

RelevantIdentifiers(call) ==
  LET args == ArgumentsOf(call)
      t == classify_sink(child_by_field_name(call, "function")[1].text)
  IN IF t = <<SqlInjection>>
     THEN (IF args = <<>> THEN {} ELSE IdentifiersIn(args[1]))
     ELSE UNION {IdentifiersIn(args[k]) : k \in 1..Len(args)}

PlainArgument(n) ==
  \/ n.kind \in {"identifier", "integer"}
  \/ n.kind = "attribute" /\ child_by_field_name(n, "object")[1].kind = "identifier"
  \/ PureLiteral(n)

\* the arguments scanned for a call of the given sink type: the first one
\* for a SQL sink, all of them otherwise
ScannedArguments(lc) ==
  LET args == ArgumentsOf(lc[2])
  IN IF lc \in CallsOfType(SqlInjection) /\ args # <<>> THEN <<args[1]>> ELSE args

\* the sink calls all of whose scanned arguments are plain
PlainSinkCalls ==
  {lc \in SinkCalls :
     \A k \in 1..Len(ScannedArguments(lc)) : PlainArgument(ScannedArguments(lc)[k])}

\* one name for an attribute, its dotted text
DottedNames(n) ==
  IF n.kind \in {"identifier", "attribute"} THEN <<n.text>> ELSE <<>>

\* two names for an attribute, its object and its attribute
PartNames(n) ==
  IF n.kind = "identifier" THEN <<n.text>>
  ELSE IF n.kind = "attribute"
       THEN <<child_by_field_name(n, "object")[1].text,
              child_by_field_name(n, "attribute")[1].text>>
  ELSE <<>>

\* the sinks emitted for the call have the names as tainted_vars; without
\* names there is no sink
SinkHasNames(lc, names) ==
  /\ \A i \in SinksOf(lc) : sinks[i].tainted_vars = names
  /\ (SinksOf(lc) = {}) <=> (names = <<>>)

C25_WitnessLiterals ==
  /\ pc = "parsed"
  /\ source = <<ExpressionStatement(Call(Attribute(Ident(<<"o","s">>), <<"s","y","s","t","e","m">>),
                                         <<StringLit(<<"S","E","L","E","C","T"," ","?">>), Integer(<<"1">>)>>))>>
  /\ sinks = <<>>

\* ------------------------------------------------------------------------
\* ExploitProver::analyze on a source, statement by statement
\* ------------------------------------------------------------------------
InitProver ==
  /\ source \in ProverPrograms
  /\ pc = "start"
  /\ slicer = NewSlicer
  /\ DfsIdle
  /\ ProverIdle
  /\ CrossIdle

loopVars == <<exploitable_sinks, attack_paths, z3_proof_model>>

\* Step 1: find_sinks, and the early return when there is no sink
ProverFindSinks ==
  /\ pc = "start"
  /\ sinks' = find_sinks(source)
  /\ IF sinks' = <<>>
     THEN /\ result' = NoSinksResult
          /\ pc' = "done"
     ELSE /\ result' = result
          /\ pc' = "slice"
  /\ UNCHANGED <<crossVars, atLineVars, slicerVars, dfsVars, sinkIdx, path, smt_script, trail, loopVars>>

\* Steps 2 and 3: BackwardSlicer::new(), slicer.analyze(source, &tree)
ProverSlice ==
  /\ pc = "slice"
  /\ slicer' = analyze_slicer(source)
  /\ sinkIdx' = 1
  /\ pc' = "loop"
  /\ UNCHANGED <<crossVars, atLineVars, source, dfsVars, sinks, path, smt_script, trail, loopVars, result>>

\* one entry of the trail
TrailEntry(i, pth, script, run, solved, counted) ==
  [sink |-> i, path |-> pth, script |-> script, run |-> run, solved |-> solved,
   counted |-> counted]

\* the tracer on the sink at hand
TraceAtHand == trace_to_entry_point(slicer, sinks[sinkIdx], SourceText(source))

\* a turn of the loop for a sink the tracer returns None for
ProverNoPath ==
  /\ pc = "loop"
  /\ sinkIdx <= Len(sinks)
  /\ TraceAtHand = <<>>
  /\ trail' = Append(trail, TrailEntry(sinkIdx, <<>>, <<>>, <<>>, <<>>, FALSE))
  /\ sinkIdx' = sinkIdx + 1
  /\ UNCHANGED <<crossVars, atLineVars, slicerVars, dfsVars, pc, sinks, path, smt_script, loopVars, result>>

\* a turn of the loop for a traced sink that is not a SQL sink
ProverCountDirect ==
  /\ pc = "loop"
  /\ sinkIdx <= Len(sinks)
  /\ TraceAtHand # <<>>
  /\ sinks[sinkIdx].sink_type # SqlInjection
  /\ LET counted == is_verified(sinks[sinkIdx], <<>>)
     IN /\ trail' = Append(trail, TrailEntry(sinkIdx, TraceAtHand, <<>>, <<>>, <<>>, counted))
        /\ exploitable_sinks' =
             IF counted THEN Append(exploitable_sinks, sinks[sinkIdx]) ELSE exploitable_sinks
        /\ attack_paths' =
             IF counted THEN attack_paths \o TraceAtHand[1] ELSE attack_paths
  /\ sinkIdx' = sinkIdx + 1
  /\ UNCHANGED <<crossVars, atLineVars, slicerVars, dfsVars, pc, sinks, path, smt_script, z3_proof_model, result>>

\* a turn of the loop for a traced SQL sink, up to the call of solve
ProverGenerateSmt ==
  /\ pc = "loop"
  /\ sinkIdx <= Len(sinks)
  /\ TraceAtHand # <<>>
  /\ sinks[sinkIdx].sink_type = SqlInjection
  /\ path' = TraceAtHand
  /\ smt_script' = generate_smt(TraceAtHand[1], sinks[sinkIdx].code_snippet)
  /\ pc' = "solve"
  /\ UNCHANGED <<crossVars, atLineVars, slicerVars, dfsVars, sinks, sinkIdx, trail, loopVars, result>>

\* solver.solve(&smt_script) and the rest of the turn: the subprocess comes
\* to any of its outcomes
ProverSolve ==
  /\ pc = "solve"
  /\ \E o \in ProcessOutcomes :
       LET solved == solve(o)
           counted == is_verified(sinks[sinkIdx], solved)
       IN /\ trail' = Append(trail, TrailEntry(sinkIdx, path, smt_script, <<o>>,
                                               <<solved>>, counted))
          /\ z3_proof_model' =
               IF solved.tag = "OkSome" THEN <<solved.text>> ELSE z3_proof_model
          /\ exploitable_sinks' =
               IF counted THEN Append(exploitable_sinks, sinks[sinkIdx])
               ELSE exploitable_sinks
          /\ attack_paths' = IF counted THEN attack_paths \o path[1] ELSE attack_paths
  /\ path' = <<>>
  /\ smt_script' = <<>>
  /\ sinkIdx' = sinkIdx + 1
  /\ pc' = "loop"
  /\ UNCHANGED <<crossVars, atLineVars, slicerVars, dfsVars, sinks, result>>

\* Step 4 and the return of analyze
ProverFinish ==
  /\ pc = "loop"
  /\ sinkIdx > Len(sinks)
  /\ result' = final_result(sinks, exploitable_sinks, attack_paths, z3_proof_model)
  /\ pc' = "done"
  /\ UNCHANGED <<crossVars, atLineVars, slicerVars, dfsVars, sinks, sinkIdx, path, smt_script, trail, loopVars>>

\* the rest of analyze_at_line(source, target_line) once its call of
\* analyze has returned
ProverRetainAtLine(t) ==
  /\ pc = "done"
  /\ target_line' = t
  /\ line_result' = analyze_at_line(result, t)
  /\ pc' = "at_line"
  /\ UNCHANGED <<crossVars, slicerVars, dfsVars, proverVars, sink_var>>

NextProver ==
  \/ \E t \in TargetLines : ProverRetainAtLine(t)
  \/ ProverFindSinks
  \/ ProverSlice
  \/ ProverNoPath
  \/ ProverCountDirect
  \/ ProverGenerateSmt
  \/ ProverSolve
  \/ ProverFinish

SpecProver == InitProver /\ [][NextProver]_vars

\* ------------------------------------------------------------------------
\* CrossFileSlicer on a workspace: index_workspace, then analyze_file
\* ------------------------------------------------------------------------
\* CrossFileSlicer::new(workspace_root)
InitCross ==
  /\ \E w \in Workspaces : workspace = w /\ can_read = DOMAIN w.files
  /\ indexer = NewIndexer
  /\ analyzed_files = {}
  /\ nCalls = 0
  /\ stale_files = {}
  /\ last_file = <<>>
  /\ last_result = <<>>
  /\ source = <<>>
  /\ pc = "new"
  /\ slicer = NewSlicer
  /\ DfsIdle
  /\ ProverIdle

otherVars == <<source, slicer, dfsVars, proverVars, atLineVars>>

\* index_workspace
CrossIndexWorkspace ==
  /\ pc = "new"
  /\ nCalls = 0
  /\ indexer' = index_workspace(indexer, workspace.order, workspace.files, can_read)
  /\ pc' = "indexed"
  /\ UNCHANGED <<otherVars, workspace, can_read, analyzed_files, nCalls, stale_files, last_file, last_result>>

\* a file of the workspace is deleted or made unreadable between the
\* indexing and the first analysis
FileLost(f) ==
  /\ pc = "indexed"
  /\ nCalls = 0
  /\ can_read = DOMAIN workspace.files
  /\ f \in can_read
  /\ can_read' = can_read \ {f}
  /\ UNCHANGED <<otherVars, pc, workspace, indexer, analyzed_files, nCalls, stale_files, last_file, last_result>>

\* the environment of analyze_file_internal
CrossEnv == [files |-> workspace.files, can_read |-> can_read, indexer |-> indexer]

\* analyze_file(file_path) on the slicer as earlier calls left it
CrossAnalyzeFile(f) ==
  /\ nCalls < MaxCalls
  /\ LET r == analyze_file(CrossEnv, f, analyzed_files)
     IN /\ last_result' = r
        /\ analyzed_files' = r.analyzed_files
  /\ stale_files' = analyzed_files
  /\ last_file' = f
  /\ nCalls' = nCalls + 1
  /\ UNCHANGED <<otherVars, pc, workspace, can_read, indexer>>

NextCross ==
  \/ CrossIndexWorkspace
  \/ \E f \in DOMAIN workspace.files : FileLost(f)
  \/ \E f \in DOMAIN workspace.files \cup {nonexistent_py} : CrossAnalyzeFile(f)

SpecCross == InitCross /\ [][NextCross]_vars

\* ------------------------------------------------------------------------
\* Claims about CrossFileSlicer
\* ------------------------------------------------------------------------
\* analyze_file has returned
Analyzed == nCalls > 0

\* the visits of the last top-level call that read the file, or tried to
ReadVisits ==
  SelectSeq(last_result.log, LAMBDA v : v.how \in {"analysed", "read_error"})

\* the files whose functions the calls written in file f resolve to
CalledFiles(f) ==
  IF f \notin DOMAIN workspace.files THEN {}
  ELSE LET prog == workspace.files[f]
           calls == Cat([i \in 1..Len(prog) |-> find_function_calls(prog[i], i - 1)])
           to(i) == resolve_symbol(indexer, f, calls[i].call_name)
       IN {to(i)[1].file_path : i \in {k \in 1..Len(calls) : to(k) # <<>>}}

\* the files at most hops cross-file calls away from f
RECURSIVE WithinHops(_, _)
WithinHops(f, hops) ==
  IF hops = 0 THEN {f}
  ELSE LET near == WithinHops(f, hops - 1)
       IN near \cup UNION {CalledFiles(g) : g \in near}

\* the sink nodes of the returned attack path
SinkNodes == SelectSeq(last_result.attack_path, LAMBDA node : node.is_sink)

\* C13: in one top-level analyze_file call no file is read, parsed or
\* sliced at a depth above 3, and every sink node of the returned attack
\* path lies in a file at most 3 cross-file hops from the top-level file
C13_DepthBounded ==
  Analyzed =>
    /\ \A i \in 1..Len(ReadVisits) : ReadVisits[i].depth <= 3
    /\ last_result.log[1].depth = 0
    /\ \A i \in 1..Len(SinkNodes) : SinkNodes[i].file_path \in WithinHops(last_file, 3)

\* a chain of five files analysed from its first file: the fifth file is
\* reached at depth 4 and turned away unread, and its sink is not in the path
C13_Witness ==
  /\ Analyzed
  /\ last_file = FileName(0)
  /\ can_read = DOMAIN workspace.files
  /\ Cardinality(DOMAIN workspace.files) = 5
  /\ [i \in 1..Len(last_result.log) |-> last_result.log[i].depth] = <<0, 1, 2, 3, 4>>
  /\ last_result.log[5] = Visit(FileName(4), 4, "too_deep")
  /\ find_sinks(workspace.files[FileName(4)]) # <<>>
  /\ \A i \in 1..Len(SinkNodes) : SinkNodes[i].file_path # FileName(4)
  /\ SinkNodes # <<>>

\* the calls written in the files of the workspace
CallsWritten ==
  LET order == workspace.order
      count(f) == Len(Cat([i \in 1..Len(workspace.files[f]) |->
                             find_function_calls(workspace.files[f][i], i - 1)]))
      RECURSIVE sum(_)
      sum(k) == IF k = 0 THEN 0 ELSE sum(k - 1) + count(order[k])
  IN sum(Len(order))

\* C14: in one top-level analyze_file call each file is analysed at most
\* once; a second visit of a file returns without recursing, so the visits
\* are no more than one per call written in the workspace plus the first,
\* and every turned-away visit of a seen file follows a visit that read it
C14_AnalysedAtMostOnce ==
  Analyzed =>
    /\ \A i, k \in 1..Len(ReadVisits) : i # k => ReadVisits[i].file # ReadVisits[k].file
    /\ Len(last_result.log) <= 1 + CallsWritten
    /\ \A k \in 1..Len(last_result.log) :
         last_result.log[k].how = "seen" =>
           /\ \E i \in 1..(k - 1) :
                /\ last_result.log[i].file = last_result.log[k].file
                /\ last_result.log[i].how \in {"analysed", "read_error"}
           /\ k < Len(last_result.log) =>
                last_result.log[k + 1].depth <= last_result.log[k].depth
    /\ {ReadVisits[i].file : i \in 1..Len(ReadVisits)} = analyzed_files

\* two files that call each other, analysed from the first: the second
\* file's call back into the first is answered without a second analysis
C14_Witness ==
  /\ Analyzed
  /\ last_file = FileName(0)
  /\ FileName(0) \in CalledFiles(FileName(1))
  /\ FileName(1) \in CalledFiles(FileName(0))
  /\ last_result.log = <<Visit(FileName(0), 0, "analysed"),
                         Visit(FileName(1), 1, "analysed"),
                         Visit(FileName(0), 2, "seen")>>

\* analyze_file(main.py) has returned on the indexed, readable workspace w
AnalyzedMain(w) ==
  /\ Analyzed
  /\ workspace = w
  /\ pc = "indexed"
  /\ can_read = DOMAIN w.files
  /\ last_file = main_py

\* one flow from main.py to utils.py, and a CROSS_FILE_CALL node followed
\* by a sink node of utils.py
OneFlowIntoUtils ==
  /\ last_result.ok
  /\ Len(last_result.cross_file_flows) = 1
  /\ last_result.cross_file_flows[1].caller_file = main_py
  /\ last_result.cross_file_flows[1].callee_file = utils_py
  /\ \E i \in 1..(Len(last_result.attack_path) - 1) :
       /\ last_result.attack_path[i].node_type = <<"C","R","O","S","S","_","F","I","L","E","_","C","A","L","L">>
       /\ last_result.attack_path[i + 1].is_sink
       /\ last_result.attack_path[i + 1].file_path = utils_py

\* C15: main.py imports run_query from utils.py and calls
\* run_query(input()); utils.py defines run_query(data) with
\* cursor.execute(data): analyze_file(main.py) returns exactly one
\* CrossFileFlow from main.py to utils.py and an attack path with a
\* CROSS_FILE_CALL node followed by a sink node of utils.py
C15_DirectSourceArgumentFlows ==
  AnalyzedMain(MainAndUtils(<<>>, InputCall, FALSE)) => OneFlowIntoUtils

\* what the code returns for run_query(input()): the only name among the
\* argument's identifiers is input, which is_tainted rejects, so there is
\* no flow, no CROSS_FILE_CALL node and utils.py is not visited
C15_DirectSourceArgumentDropped ==
  AnalyzedMain(MainAndUtils(<<>>, InputCall, FALSE)) =>
    /\ last_result.ok
    /\ last_result.cross_file_flows = <<>>
    /\ last_result.attack_path = <<>>
    /\ last_result.log = <<Visit(main_py, 0, "analysed")>>

\* with a tainted name as the argument, def main(x): run_query(x), under
\* the function's name or an alias, the flow and the two nodes are returned
C15_TaintedNameArgumentFlows ==
  \A alias \in BOOLEAN :
    AnalyzedMain(MainAndUtils(<<Ident(<<"x">>)>>, Ident(<<"x">>), alias)) => OneFlowIntoUtils

C15_ReachedDirectSource == AnalyzedMain(MainAndUtils(<<>>, InputCall, FALSE))

C15_ReachedTaintedName ==
  AnalyzedMain(MainAndUtils(<<Ident(<<"x">>)>>, Ident(<<"x">>), TRUE)) /\ OneFlowIntoUtils

\* the flows of the calls written in the top-level file
TopFlows ==
  SelectSeq(last_result.cross_file_flows, LAMBDA fl : fl.caller_file = last_file)

\* the callee of the flow was read and sliced by the call
CalleeAnalysed(fl) ==
  \E i \in 1..Len(last_result.log) : last_result.log[i] = Visit(fl.callee_file, 1, "analysed")

\* the sinks of a file as analyze_file_internal returns them
SinksOfFile(file) ==
  LET prog == workspace.files[file]
      sl == analyze_slicer(prog)
      found == find_sinks(prog)
  IN [i \in 1..Len(found) |-> populate_tainted_vars(sl, found[i])]

\* the sink nodes of the returned attack path that lie in the file
SinkNodesIn(file) ==
  SelectSeq(last_result.attack_path, LAMBDA node : node.is_sink /\ node.file_path = file)

\* some tainted variable of the sink and some tainted argument are
\* substrings of one another
SubstringRelated(sink, tainted_args) ==
  \E i \in 1..Len(tainted_args), k \in 1..Len(sink.tainted_vars) :
    \/ contains(sink.tainted_vars[k], tainted_args[i])
    \/ contains(tainted_args[i], sink.tainted_vars[k])

LooksParameterized(sink) ==
  \E pat \in { <<","," ","p","a","r","a","m","s">>, <<","," ","(">>, <<"?">> } : contains(sink.code_snippet, pat)

C16_WitnessParameterized ==
  /\ Analyzed
  /\ Len(TopFlows) = 1
  /\ CalleeAnalysed(TopFlows[1])
  /\ Len(SinksOfFile(TopFlows[1].callee_file)) = 1
  /\ LooksParameterized(SinksOfFile(TopFlows[1].callee_file)[1])
  /\ SinkNodesIn(TopFlows[1].callee_file) = <<>>

\* the result of the same call had every file of the workspace been readable
AllReadable ==
  analyze_file_internal([CrossEnv EXCEPT !.can_read = DOMAIN workspace.files],
                        last_file, 0, {}, <<>>)

\* the callees of the top-level file that could not be read
LostCallees ==
  {TopFlows[f].callee_file : f \in 1..Len(TopFlows)} \ can_read

\* C17: a callee file that cannot be read does not fail the top-level
\* call: analyze_file returns an error exactly when the top-level file
\* itself cannot be read; an unreadable callee adds no sink node and no
\* flow of its own, while the flows of all calls of the top-level file, the
\* top-level file's own sinks and the sink nodes of its readable callees
\* are those of the workspace with every file readable
C17_CalleeErrorNotPropagated ==
  Analyzed =>
    /\ last_result.ok <=> last_file \in can_read
    /\ \A callee \in LostCallees :
         /\ SinkNodesIn(callee) = <<>>
         /\ \A f \in 1..Len(last_result.cross_file_flows) :
              last_result.cross_file_flows[f].caller_file # callee
    /\ (last_result.ok /\ can_read # DOMAIN workspace.files) =>
         /\ last_result.sinks = AllReadable.sinks
         /\ SinkNodesIn(last_file) = [i \in 1..Len(last_result.sinks) |->
                                        SinkPathNode(last_file, last_result.sinks[i])]
         /\ TopFlows = SelectSeq(AllReadable.cross_file_flows,
                                 LAMBDA fl : fl.caller_file = last_file)
         /\ \A f \in 1..Len(TopFlows) :
              TopFlows[f].callee_file \in can_read =>
                SinkNodesIn(TopFlows[f].callee_file)
                  = SelectSeq(AllReadable.attack_path,
                              LAMBDA node : /\ node.is_sink
                                            /\ node.file_path = TopFlows[f].callee_file)

\* f0.py calls into f1.py and f2.py and f1.py is unreadable: the call
\* succeeds with both flows and with the sink of f2.py, without one of f1.py
C17_Witness ==
  /\ Analyzed
  /\ last_file = FileName(0)
  /\ last_result.ok
  /\ LostCallees = {FileName(1)}
  /\ \E i \in 1..Len(last_result.log) :
       last_result.log[i] = Visit(FileName(1), 1, "read_error")
  /\ Len(TopFlows) = 2
  /\ SinkNodesIn(FileName(1)) = <<>>
  /\ SinkNodesIn(FileName(2)) # <<>>
  /\ find_sinks(workspace.files[FileName(1)]) # <<>>

\* the caller's own sink is reported beside the unreadable callee
C17_WitnessOwnSinks ==
  /\ Analyzed
  /\ last_result.ok
  /\ LostCallees # {}
  /\ last_result.sinks # <<>>
  /\ SinkNodesIn(last_file) # <<>>

\* the top-level file itself is unreadable, as in test_analyze_file_not_found
C17_WitnessTopLevel ==
  /\ Analyzed
  /\ last_file = nonexistent_py
  /\ ~last_result.ok

\* the result of the call on a slicer that has the same index and has
\* analysed nothing before
OnFreshSlicer == analyze_file_internal(CrossEnv, last_file, 0, {}, <<>>)

\* C18: analyze_file resets the recursion guards: whatever earlier
\* top-level calls left in analyzed_files, the call starts at depth 0 with
\* an empty set, its result (and the files it analyses) is that of the
\* same call on a slicer that analysed nothing before, and a readable
\* top-level file is analysed, not answered with an empty result
C18_GuardsResetPerCall ==
  Analyzed =>
    /\ last_result = OnFreshSlicer
    /\ analyzed_files = OnFreshSlicer.analyzed_files
    /\ last_result.log[1].depth = 0
    /\ last_result.log[1].file = last_file
    /\ last_result.log[1].how # "seen"
    /\ last_file \in analyzed_files

\* a file with a sink analysed a second time on the same slicer: the first
\* call left it in analyzed_files, the second call analysed it again and
\* reports its sink
C18_Witness ==
  /\ nCalls = 2
  /\ stale_files # {}
  /\ last_file \in stale_files
  /\ last_result.ok
  /\ last_result.log[1] = Visit(last_file, 0, "analysed")
  /\ last_result.sinks # <<>>
  /\ last_result.cross_file_flows # <<>>

\* a call after a failed call
C18_WitnessAfterFailure ==
  /\ nCalls = 2
  /\ stale_files = {nonexistent_py}
  /\ last_result.ok
  /\ last_result.sinks # <<>>

\* ------------------------------------------------------------------------
\* The sink records of a returned result
\* ------------------------------------------------------------------------
\* the sinks as the sink detector creates them for the top-level file
DetectedSinks ==
  IF last_file \in DOMAIN workspace.files THEN find_sinks(workspace.files[last_file])
  ELSE <<>>

\* C21: in every result analyze_file returns, the tainted_vars of a
\* SqlInjection sink hold only names the sink detector took from the first
\* positional argument of the call, never a name that occurs only in the
\* parameters argument
C21_SqlSinkVarsFromFirstArgument ==
  Analyzed =>
    /\ Len(last_result.sinks) = Len(DetectedSinks)
    /\ \A i \in 1..Len(last_result.sinks) :
         last_result.sinks[i].sink_type = SqlInjection =>
           Range(last_result.sinks[i].tainted_vars) \subseteq Range(DetectedSinks[i].tainted_vars)

\* ------------------------------------------------------------------------
\* The attack path of a chain of cross-file calls
\* ------------------------------------------------------------------------
\* the callee of the flow was read and sliced by the top-level call, below
\* the top-level file
CalleeSliced(fl) ==
  /\ fl.callee_file # last_file
  /\ \E i \in 1..Len(last_result.log) :
       /\ last_result.log[i].file = fl.callee_file
       /\ last_result.log[i].how = "analysed"

\* the attack path has a sink node of the file on the line, after a
\* CROSS_FILE_CALL node
SinkNodeAfterCall(file, ln) ==
  \E j \in 1..Len(last_result.attack_path) :
    /\ last_result.attack_path[j].is_sink
    /\ last_result.attack_path[j].file_path = file
    /\ last_result.attack_path[j].line = ln
    /\ \E k \in 1..(j - 1) : last_result.attack_path[k].node_type = <<"C","R","O","S","S","_","F","I","L","E","_","C","A","L","L">>

\* C26: for every cross-file call with a tainted argument that the
\* top-level analyze_file followed, at whatever depth within the bound, the
\* returned attack path holds the sink nodes of the callee's file that do
\* not look parameterized, after a CROSS_FILE_CALL node: the attack path of
\* a callee is carried up to its caller
C26_CalleePathCarriedUp ==
  Analyzed =>
    \A f \in 1..Len(last_result.cross_file_flows) :
      \A fl \in {last_result.cross_file_flows[f]} :
        CalleeSliced(fl) =>
          \A sk \in Range(SinksOfFile(fl.callee_file)) :
            ~LooksParameterized(sk) => SinkNodeAfterCall(fl.callee_file, sk.line)

\* ------------------------------------------------------------------------
\* ConstraintGenerator::generate_smt on a path of its own
\* ------------------------------------------------------------------------
InitSmt ==
  /\ pc = "smt_new"
  /\ \E nodes \in SmtPaths : path = <<nodes>>
  /\ sink_var \in SinkVars
  /\ smt_script = <<>>
  /\ sinks = <<>>
  /\ sinkIdx = 0
  /\ trail = <<>>
  /\ exploitable_sinks = <<>>
  /\ attack_paths = <<>>
  /\ z3_proof_model = <<>>
  /\ result = <<>>
  /\ target_line = <<>>
  /\ line_result = <<>>
  /\ source = <<>>
  /\ slicer = NewSlicer
  /\ DfsIdle
  /\ CrossIdle

\* generate_smt(&path, sink_var)
SmtGenerate ==
  /\ pc = "smt_new"
  /\ smt_script' = generate_smt(path[1], sink_var)
  /\ pc' = "smt_done"
  /\ UNCHANGED <<crossVars, slicerVars, dfsVars, sinks, sinkIdx, path, trail, loopVars, result,
                 target_line, line_result, sink_var>>

NextSmt == SmtGenerate

SpecSmt == InitSmt /\ [][NextSmt]_vars

\* ------------------------------------------------------------------------
\* Properties of analyze
\* ------------------------------------------------------------------------
\* the lines of the source holding the statement s
LinesOf(s) == {i \in 1..Len(source) : source[i] = s}

\* the f-string scenario: a request.args assignment, then the f-string
\* assigned to query, then cursor.execute(query), the one SQL call with a
\* variable in its query
FStringScenario ==
  /\ Cardinality(LinesOf(ExecuteQuery)) = 1
  /\ LinesOf(ExecuteUserId) = {}
  /\ \E i \in LinesOf(AssignFromRequest), j \in LinesOf(AssignFString),
        k \in LinesOf(ExecuteQuery) : i < j /\ j < k

\* the trail entries of the SQL sinks
SqlEntries == {n \in 1..Len(trail) : sinks[trail[n].sink].sink_type = SqlInjection}

SolveAsSpecified(o, solved) ==
  IF o.spawned /\ o.written /\ o.waited /\ o.success
  THEN LET ls == lines(o.stdout)
       IN IF ls # <<>> /\ ls[1] = <<"S","A","T">>
          THEN solved = OkSome(join(Tail(ls), <<"\n">>))
          ELSE IF ls = <<<<"U","N","S","A","T">>>> THEN solved = OkNone
          ELSE solved.tag = "Err"
  ELSE solved.tag = "Err"

\* C4: solve returns the model when stdout is the line SAT followed by the
\* model, no model when stdout is the line UNSAT, and an error for any other
\* output, a non-zero exit or a failure to start the process; an UNSAT
\* answer is never returned as a model.
C4_SolveMapsOutput ==
  \A n \in 1..Len(trail) :
    trail[n].run # <<>> =>
      /\ SolveAsSpecified(trail[n].run[1], trail[n].solved[1])
      /\ lines(trail[n].run[1].stdout) = <<<<"U","N","S","A","T">>>> => trail[n].solved[1].tag # "OkSome"

\* solve on every outcome but the UNSAT answer is as specified
C4_SolveMapsOtherOutput ==
  \A n \in 1..Len(trail) :
    (trail[n].run # <<>> /\ trail[n].run[1] # AnswerUnsat) =>
      SolveAsSpecified(trail[n].run[1], trail[n].solved[1])

\* the models the solver returned, in the order of the trail
ModelsReturned ==
  SelectSeq(trail, LAMBDA e : e.solved # <<>> /\ e.solved[1].tag = "OkSome")

C5_WitnessSafe ==
  /\ pc = "done"
  /\ sinks # <<>>
  /\ \A n \in 1..Len(trail) : ~trail[n].counted
  /\ result.status = Safe

\* C6: when find_sinks finds no sink, analyze returns NoSinksFound with
\* success, an empty sink list, no payload, an empty attack path and a
\* non-empty explanation, and neither the slicer nor the solver has run.
C6_NoSinksFound ==
  (pc = "done" /\ find_sinks(source) = <<>>) =>
    /\ result.status = NoSinksFound
    /\ result.success
    /\ result.sinks = <<>>
    /\ result.payload = <<>>
    /\ result.attack_path = <<>>
    /\ result.explanation.text # <<>>
    /\ slicer = NewSlicer
    /\ trail = <<>>

\* a source whose only mention of a sink is in a comment was analysed
C6_Witness ==
  /\ pc = "done"
  /\ source = <<AssignFromRequest, CommentLine>>
  /\ result.status = NoSinksFound

\* the only dangerous call of the source is the parameterized one
OnlyParameterizedCall ==
  /\ LinesOf(ExecuteParameterized) # {}
  /\ LinesOf(ExecuteQuery) = {}
  /\ LinesOf(ExecuteUserId) = {}
  /\ LinesOf(SystemCall) = {}

\* C7: for a source whose only dangerous call is the parameterized SQL call,
\* analyze returns Safe, with no sink or with sinks whose tainted_vars is
\* empty.
C7_ParameterizedIsSafe ==
  (pc = "done" /\ OnlyParameterizedCall) =>
    /\ result.status = Safe
    /\ \A i \in 1..Len(result.sinks) : result.sinks[i].tainted_vars = <<>>

\* what analyze returns for such a source: the early return, NoSinksFound
\* with an empty sink list
C7_ParameterizedIsNoSinksFound ==
  (pc = "done" /\ OnlyParameterizedCall) =>
    /\ result.status = NoSinksFound
    /\ result.sinks = <<>>

\* ------------------------------------------------------------------------
\* The solver model of the explanation
\* ------------------------------------------------------------------------
\* the trail entries of the sinks counted as exploitable
CountedEntries == {n \in 1..Len(trail) : trail[n].counted}

\* the model the solver returned in a turn of the loop, <<>> if it was not
\* run or returned none
ModelOf(entry) ==
  IF entry.solved # <<>> /\ entry.solved[1].tag = "OkSome"
  THEN <<entry.solved[1].text>>
  ELSE <<>>

\* C30: the solver model in the explanation of an Exploitable result is
\* the model obtained for the primary sink, the first exploitable sink,
\* whose kind, line and payload the explanation reports; the model of a
\* later SQL sink is never attached to the report of an earlier or a
\* non-SQL primary sink
C30_ModelIsOfPrimarySink ==
  (pc = "done" /\ result.status = Exploitable) =>
    \A first \in {SetMin(CountedEntries)} :
      /\ sinks[trail[first].sink] = result.sinks[1]
      /\ result.explanation.about[1] = result.sinks[1].line
      /\ result.explanation.model = ModelOf(trail[first])

\* ------------------------------------------------------------------------
\* Properties of trace_to_entry_point
\* ------------------------------------------------------------------------
\* the state build_trace_recursive leaves behind for the sink, traced from
\* its first tainted variable
TraceStateOf(sink) ==
  build_trace_state(slicer, first_tainted_var(slicer, sink)[1], SourceText(source),
                    trace_start(sink))

\* C12: a path returned by trace_to_entry_point starts with the node of the
\* sink, all its nodes have a line of at least 1, and its construction
\* inserts every (name, definition line) pair into visited at most once, so
\* it expands at most as many pairs as there are definitions and returns on
\* cyclic dependencies as well; None is returned only if no variable of the
\* sink is tainted.
C12_TracePathWellFormed ==
  \A n \in 1..Len(trail) :
    LET sink == sinks[trail[n].sink]
    IN IF trail[n].path = <<>> THEN first_tainted_var(slicer, sink) = <<>>
       ELSE LET pth == trail[n].path[1]
                st == TraceStateOf(sink)
            IN /\ first_tainted_var(slicer, sink) # <<>>
               /\ pth = st.path
               /\ Len(pth) >= 1
               /\ pth[1].line = sink.line
               /\ pth[1].code = sink.code_snippet
               /\ pth[1].description = <<"S","I","N","K",":"," ">> \o description(sink.sink_type)
               /\ \A k \in 1..Len(pth) : pth[k].line >= 1
               /\ NoDuplicates(st.expanded)
               /\ Range(st.expanded) = st.visited
               /\ Len(st.expanded) <= DefCount(slicer)

\* the cycle a -> b -> a fed by c = input() has been traced from the sink on
\* line 4: each definition expanded once, the second visit of a skipped
C12_Witness ==
  /\ source = << Assignment(Ident(c), InputCall),
                 Assignment(Ident(b), BinaryOperator(Ident(a), <<"+">>, Ident(c))),
                 Assignment(Ident(a), Ident(b)),
                 ExpressionStatement(Call(Attribute(Ident(<<"c","u","r","s","o","r">>), <<"e","x","e","c","u","t","e">>),
                                          <<Ident(a)>>)) >>
  /\ Len(trail) = 1
  /\ trail[1].path # <<>>
  /\ [k \in 1..Len(trail[1].path[1]) |-> trail[1].path[1][k].line] = <<4, 3, 2, 1>>
  /\ TraceStateOf(sinks[1]).expanded = << <<a, 3>>, <<b, 2>>, <<c, 1>> >>

\* an augmented assignment that depends on itself has been traced: b is
\* expanded once although it is among its own tainted dependencies
C12_WitnessAugmented ==
  /\ source = << AugmentedAssignment(Ident(b), InputCall),
                 ExpressionStatement(Call(Attribute(Ident(<<"o","s">>), <<"s","y","s","t","e","m">>),
                                          <<BinaryOperator(Ident(b), <<"+">>, Ident(a))>>)) >>
  /\ Len(trail) = 1
  /\ trail[1].path # <<>>
  /\ b \in Range(slicer.definitions[b][1].dependencies)
  /\ TraceStateOf(sinks[1]).expanded = << <<b, 1>> >>

\* the variables of the sink the slicer answers tainted for, in the order
\* of sink.tainted_vars
TaintedVarsOf(sink) ==
  SelectSeq(sink.tainted_vars, LAMBDA v : is_tainted_recursive(slicer, v, {}).res)

\* the lines of the nodes of a path
PathLines(pth) == {pth[k].line : k \in 1..Len(pth)}

\* the lines of the definitions of a name
DefLines(v) ==
  IF v \in DOMAIN slicer.definitions
  THEN {slicer.definitions[v][i].line : i \in 1..Len(slicer.definitions[v])}
  ELSE {}

\* C22: the path returned for a sink holds the definition nodes of every
\* variable of the sink that is tainted, not only those of the first
\* tainted one
C22_EveryTaintedVarTraced ==
  \A n \in 1..Len(trail) :
    trail[n].path # <<>> =>
      \A v \in Range(TaintedVarsOf(sinks[trail[n].sink])) :
        DefLines(v) \subseteq PathLines(trail[n].path[1])

\* C22 as the code has it: the path returned for a sink holds a node for
\* every definition of the first tainted variable of the sink; when two or
\* more variables of the sink are tainted, the path is the node of the sink
\* followed by the trace of the first of them alone, and the others are
\* left untraced
C22_FirstTaintedVarTraced ==
  \A n \in 1..Len(trail) :
    trail[n].path # <<>> =>
      LET sink == sinks[trail[n].sink]
          first == TaintedVarsOf(sink)[1]
          pth == trail[n].path[1]
      IN /\ TaintedVarsOf(sink) # <<>>
         /\ DefLines(first) \subseteq PathLines(pth)
         /\ Len(TaintedVarsOf(sink)) >= 2 =>
              pth = build_trace(slicer, first, SourceText(source), trace_start(sink))

\* c = input(); a += c; b += input(); os.system(b + a): both variables of
\* the sink are tainted, the path holds the sink and the definition of b,
\* and neither the definition of a nor that of c
C22_Witness ==
  /\ source = << Assignment(Ident(c), InputCall),
                 AugmentedAssignment(Ident(a), Ident(c)),
                 AugmentedAssignment(Ident(b), InputCall),
                 ExpressionStatement(Call(Attribute(Ident(<<"o","s">>), <<"s","y","s","t","e","m">>),
                                          <<BinaryOperator(Ident(b), <<"+">>, Ident(a))>>)) >>
  /\ Len(trail) = 1
  /\ trail[1].path # <<>>
  /\ TaintedVarsOf(sinks[1]) = <<b, a>>
  /\ [k \in 1..Len(trail[1].path[1]) |-> trail[1].path[1][k].line] = <<4, 3>>
  /\ DefLines(a) = {2}

\* C28: every path trace_to_entry_point returns has, besides the node of
\* the sink, at least one node whose description starts with ENTRY, also
\* for a sink tainted by the pre-seeded name request and for a sink on the
\* line of the parameter that taints it
C28_PathLeadsToEntry ==
  \A n \in 1..Len(trail) :
    trail[n].path # <<>> =>
      \E k \in 2..Len(trail[n].path[1]) :
        starts_with(trail[n].path[1][k].description, <<"E","N","T","R","Y">>)

\* ------------------------------------------------------------------------
\* Claims about analyze_at_line
\* ------------------------------------------------------------------------
\* analyze_at_line has returned
AtLineDone == pc = "at_line"

\* |line - target_line| <= 5 on the numbers themselves, for a line < 2^31
WithinWindow(line, target) ==
  /\ target.high = 0
  /\ target.low >= 0
  /\ line - target.low <= 5
  /\ target.low - line <= 5

\* target_line <= i32::MAX
FitsI32(target) == target.high = 0 /\ target.low >= 0

\* the sinks of analyze's result within the window, in their order
SinksInWindow == SelectSeq(result.sinks, LAMBDA s : WithinWindow(s.line, target_line))

C19_WitnessEdge ==
  /\ AtLineDone
  /\ target_line = Usize(0, 7)
  /\ Len(result.sinks) = 1
  /\ result.sinks[1].line = 2
  /\ line_result.sinks = result.sinks

\* every sink is out of the window: the status becomes NoSinksFound
C19_WitnessNoneNear ==
  /\ AtLineDone
  /\ result.sinks # <<>>
  /\ result.status = Exploitable
  /\ line_result.sinks = <<>>
  /\ line_result.status = NoSinksFound

\* the target line 2^32 - 3: the sink of line 1 is kept
C19_WitnessTruncated ==
  /\ AtLineDone
  /\ target_line = Usize(0, 0 - 3)
  /\ \E i \in 1..Len(line_result.sinks) : line_result.sinks[i].line = 1

\* ------------------------------------------------------------------------
\* Status, payload and attack path of a returned result
\* ------------------------------------------------------------------------
\* payload and attack path go with the status Exploitable only, and the
\* payload is the one of a sink listed in the result
ConsistentResult(r) ==
  IF r.status = Exploitable
  THEN /\ r.payload # <<>>
       /\ \E i \in 1..Len(r.sinks) : r.payload[1] = generate_payload(r.sinks[i])
  ELSE /\ r.payload = <<>>
       /\ r.attack_path = <<>>

\* C27: in every result analyze or analyze_at_line returns, a payload and
\* a non-empty attack path are present only with the status Exploitable,
\* and the payload of an Exploitable result is about one of the sinks the
\* result lists
C27_PayloadOnlyWithExploitable ==
  /\ result # <<>> => ConsistentResult(result)
  /\ AtLineDone => ConsistentResult(line_result)

\* ------------------------------------------------------------------------
\* Claims about generate_smt
\* ------------------------------------------------------------------------
\* generate_smt has returned
SmtDone == pc = "smt_done"

\* the lines of the script: every line of it ends with a line feed
ScriptLines ==
  LET pieces == split(smt_script, "\n")
  IN SubSeq(pieces, 1, Len(pieces) - 1)

DeclarePrefix == <<"(","d","e","c","l","a","r","e","-","c","o","n","s","t"," ">>
DeclareSuffix == <<" ","S","t","r","i","n","g",")">>
GoalPrefix == <<"(","a","s","s","e","r","t"," ","(","s","t","r",".","c","o","n","t","a","i","n","s"," ">>

\* the positions of the declarations, of the assertions and of the goals
\* among the lines ls
DeclareIn(ls) == {i \in 1..Len(ls) : starts_with(ls[i], DeclarePrefix)}
AssertIn(ls) == {i \in 1..Len(ls) : starts_with(ls[i], <<"(","a","s","s","e","r","t"," ">>)}
GoalIn(ls) == {i \in 1..Len(ls) : starts_with(ls[i], GoalPrefix)}

\* the name a declaration declares
NameIn(line) == SubSeq(line, Len(DeclarePrefix) + 1, Len(line) - Len(DeclareSuffix))

DeclareAt == DeclareIn(ScriptLines)
AssertAt == AssertIn(ScriptLines)
DeclaredName(i) == NameIn(ScriptLines[i])

\* non-empty, first character not a digit, only alphanumerics and underscore
ValidName(name) ==
  /\ Len(name) > 0
  /\ name[1] \notin {"0", "1", "2", "3", "4", "5", "6", "7", "8", "9"}
  /\ \A i \in 1..Len(name) :
       name[i] \in Letters \cup {"0", "1", "2", "3", "4", "5", "6", "7", "8", "9", "_"}

\* sink_var if declared, otherwise the last declared name, otherwise sink_var
TargetIn(ls, at) ==
  IF \E i \in at : NameIn(ls[i]) = sink_var THEN sink_var
  ELSE IF at # {} THEN NameIn(ls[SetMax(at)])
  ELSE sink_var

GoalTarget == TargetIn(ScriptLines, DeclareAt)

\* the lines ls, with their declarations at the positions at, are a script
\* as the claim describes it
WellFormedScript(ls, at) ==
  LET n == Len(ls)
  IN /\ n >= 4
     /\ ls[1] = <<"(","s","e","t","-","l","o","g","i","c"," ","Q","F","_","S",")">>
     /\ \A d \in at, k \in AssertIn(ls) : d < k
     /\ \A d \in at :
          /\ ends_with(ls[d], DeclareSuffix)
          /\ ValidName(NameIn(ls[d]))
          /\ \A e \in at : NameIn(ls[d]) = NameIn(ls[e]) => d = e
     /\ GoalIn(ls) = {n - 2}
     /\ ls[n - 2] = GoalPrefix \o TargetIn(ls, at) \o <<" ","\"","'"," ","O","R"," ","'","1","'","=","'","1","\"",")",")">>
     /\ ls[n - 1] = <<"(","c","h","e","c","k","-","s","a","t",")">>
     /\ ls[n] = <<"(","g","e","t","-","m","o","d","e","l",")">>
     /\ \A i \in 2..(n - 3) : i \in at \cup AssertIn(ls)

\* C20: the script of generate_smt starts with (set-logic QF_S), has every
\* declare-const before every assert, declares no name twice and only
\* valid names, and ends with exactly one goal on the target (sink_var if
\* declared, else the last declared name, else sink_var), then (check-sat)
\* and (get-model); every line between the first and the goal is a
\* declaration or an assertion
C20_ScriptWellFormed ==
  SmtDone =>
    /\ smt_script[Len(smt_script)] = "\n"
    /\ \A ls \in {ScriptLines} : \A at \in {DeclareIn(ls)} : WellFormedScript(ls, at)

\* a path that assigns query twice after user_id, with an undeclared
\* sink_var: two declarations, then assertions, and the goal is on the last
\* declared name
C20_Witness ==
  /\ SmtDone
  /\ [i \in 1..Len(path[1]) |-> path[1][i].code]
       = << <<"u","s","e","r","_","i","d"," ","="," ","r","e","q","u","e","s","t",".","a","r","g","s",".","g","e","t","(","'","i","d","'",")">>,
            <<"q","u","e","r","y"," ","="," ","f","\"","S","E","L","E","C","T"," ","{","u","s","e","r","_","i","d","}","\"">>,
            <<"q","u","e","r","y"," ","="," ","'","S","E","L","E","C","T"," ","1","'">> >>
  /\ sink_var = <<"c","u","r","s","o","r",".","e","x","e","c","u","t","e","(","q","u","e","r","y",")">>
  /\ [i \in 1..Len(ScriptLines) |-> i \in DeclareAt]
       = <<FALSE, TRUE, TRUE, FALSE, FALSE, FALSE, FALSE, FALSE>>
  /\ AssertAt = {4, 5, 6}
  /\ GoalTarget = <<"q","u","e","r","y">>

\* a left side that is no valid name is not declared
C20_WitnessInvalidName ==
  /\ SmtDone
  /\ \E i \in 1..Len(path[1]) : path[1][i].code = <<"1","x"," ","="," ","\"","a","\"">>
  /\ \E i \in 1..Len(path[1]) : path[1][i].code = <<"q","2"," ","="," ","q","u","e","r","y">>
  /\ {DeclaredName(d) : d \in DeclareAt} = { <<"q","2">> }

\* the empty path: no declaration, the goal is on sink_var itself
C20_WitnessEmptyPath ==
  /\ SmtDone
  /\ path = << <<>> >>
  /\ sink_var = <<"d","a","t","a">>
  /\ ScriptLines = << <<"(","s","e","t","-","l","o","g","i","c"," ","Q","F","_","S",")">>,
                      <<"(","a","s","s","e","r","t"," ","(","s","t","r",".","c","o","n","t","a","i","n","s"," ","d","a","t","a"," ","\"","'"," ","O","R"," ","'","1","'","=","'","1","\"",")",")">>,
                      <<"(","c","h","e","c","k","-","s","a","t",")">>,
                      <<"(","g","e","t","-","m","o","d","e","l",")">> >>

\* sink_var is declared, and not last: the goal is on sink_var
C20_WitnessDeclaredSinkVar ==
  /\ SmtDone
  /\ sink_var = <<"u","s","e","r","_","i","d">>
  /\ DeclareAt = {2, 3}
  /\ DeclaredName(2) = <<"u","s","e","r","_","i","d">>
  /\ DeclaredName(3) = <<"q","u","e","r","y">>
  /\ GoalTarget = <<"u","s","e","r","_","i","d">>

\* ------------------------------------------------------------------------
\* The assertions of generate_smt
\* ------------------------------------------------------------------------
\* the two sides of the code of a node, trimmed; <<>> without an =
SidesOf(node) ==
  LET sp == split_once(node.code, "=")
  IN IF sp = <<>> THEN <<>> ELSE <<trim(sp[1]), trim(sp[2])>>

\* a string literal without prefix: a quote, the contents, the same quote
IsBareLiteral(expr) ==
  /\ Len(expr) >= 2
  /\ expr[1] \in {"\"", "'"}
  /\ expr[Len(expr)] = expr[1]

\* the literal without its surrounding quote characters
LiteralContents(expr) == SubSeq(expr, 2, Len(expr) - 1)

\* C24: for a node whose right-hand side is a bare string literal the
\* script has the line (assert (= lhs "contents")), contents being the
\* literal without its two surrounding quote characters, whatever the
\* contents are, those that begin or end with the letter f included
C24_LiteralAssertedVerbatim ==
  SmtDone =>
    \A ls \in {ScriptLines} :
      \A i \in 1..Len(path[1]) :
        \A sd \in {SidesOf(path[1][i])} :
          (sd # <<>> /\ IsBareLiteral(sd[2])) =>
            \E k \in 1..Len(ls) :
              ls[k] = <<"(","a","s","s","e","r","t"," ","(","="," ">> \o sd[1] \o <<" ","\"">> \o LiteralContents(sd[2]) \o <<"\"",")",")">>

EqualityPrefix == <<"(","a","s","s","e","r","t"," ","(","="," ">>

\* the two sides of an equality assertion: the text up to the first space,
\* and the rest without the two closing parentheses
EqualitySides(line) ==
  split_once(SubSeq(line, Len(EqualityPrefix) + 1, Len(line) - 2), " ")

\* the terms of a right-hand side that are no string literals: the words
\* outside the quoted parts, without the operator and the parentheses
VariableTerms(rhs) ==
  LET pieces == split(rhs, "\"")
      outside == {pieces[i] : i \in {k \in 1..Len(pieces) : k % 2 = 1}}
      words == UNION {Range(split(piece, " ")) : piece \in outside}
  IN {trim_matches(w, {"(", ")"}) : w \in words} \ {<<>>, <<"s","t","r",".","+","+">>}

\* the names the lines declare
DeclaredIn(ls) == {NameIn(ls[i]) : i \in DeclareIn(ls)}

\* every name of the equality assertions among the lines, and the target
\* of the goal, is declared
ClosedScript(ls) ==
  /\ \A k \in 1..Len(ls) :
       starts_with(ls[k], EqualityPrefix) =>
         \A sd \in {EqualitySides(ls[k])} :
           /\ sd # <<>>
           /\ sd[1] \in DeclaredIn(ls)
           /\ VariableTerms(sd[2]) \subseteq DeclaredIn(ls)
  /\ TargetIn(ls, DeclareIn(ls)) \in DeclaredIn(ls)

\* C29: every script of generate_smt is closed: the left-hand side of
\* every equality assertion, every variable among the terms of its
\* right-hand side, those interpolated in an f-string included, and the
\* target of the goal have a declare-const in the script; an assignment
\* whose left-hand side is no declared name gets no assertion
C29_ScriptClosed ==
  SmtDone => \A ls \in {ScriptLines} : ClosedScript(ls)
====
